---- MODULE Spec2Model ----
(***************************************************************************)
(* Quiz-Grid: the quiz session handlers of server.js (start, answer,       *)
(* submit, save, results, reset) and the question selection of             *)
(* utils/questions.js, for one authenticated user and one session token.   *)
(*                                                                         *)
(* Conventions                                                             *)
(*   - a JavaScript value that may be undefined/null is an option: the     *)
(*     empty sequence (None) or a one-element sequence (Some(x));          *)
(*   - a text is a sequence of tokens, a token being one character or one  *)
(*     complete HTML entity ("&amp;");                                     *)
(*   - req.session.save and the end-of-response save of express-session    *)
(*     store the session as the handler left it (the session store is a    *)
(*     reliable collaborator, spec section 6);                             *)
(*   - each handler runs to completion before the next request of the      *)
(*     session is served (spec section 5: callers serialize).              *)
(***************************************************************************)
EXTENDS Integers, Sequences, FiniteSets, TLC

(***************************************************************************)
(* Bounds of the model.                                                    *)
(***************************************************************************)
NumTexts == 3

NumSeeds == 1

MaxStarts == 2

MaxAnswers == 3

MaxAttempts == 2

MaxTicks == 1

MaxSeen == 2

\* SpecLedger starts with ledgers that have room for at most this many identifiers
MaxRoom == 11

\* the provider of SpecLedger returns at most this many questions at once
MaxBatch == 12

MaxOthers == 16

MaxChunks == 2

MaxInFlight == 2

TickMs == 2500

(***************************************************************************)
(* Program constants.                                                      *)
(***************************************************************************)
API_MAX == 50

MIN_OVERFETCH == 10

SUPPLEMENT_PAD == 5

ID_LENGTH == 50

DEFAULT_AMOUNT == 10

MIN_AMOUNT == 1

MAX_AMOUNT == 10

LEDGER_HIGH == 100

TIMEOUT_MS == 10000

LEDGER_KEEP == 50

(***************************************************************************)
(* JavaScript values.                                                      *)
(***************************************************************************)
None == <<>>

Some(x) == <<x>>

IsSome(o) == o # <<>>

Undefined == "undefined"

Null == "null"

Min(a, b) == IF a < b THEN a ELSE b

Max(a, b) == IF a > b THEN a ELSE b

\* Array.prototype.slice(0, n) for n >= 0
Take(s, n) == SubSeq(s, 1, Min(n, Len(s)))

\* Array.prototype.slice(-n) for n > 0
TakeLast(s, n) == SubSeq(s, Max(1, Len(s) - n + 1), Len(s))

Range(s) == {s[i] : i \in DOMAIN s}

(***************************************************************************)
(* utils/questions.js: texts, identifiers, shuffling.                      *)
(***************************************************************************)
htmlEntities ==
  [e \in {"&quot;", "&#039;", "&amp;", "&lt;", "&gt;", "&nbsp;", "&apos;"} |->
     CASE e = "&quot;" -> "\""
       [] e = "&#039;" -> "'"
       [] e = "&amp;" -> "&"
       [] e = "&lt;" -> "<"
       [] e = "&gt;" -> ">"
       [] e = "&nbsp;" -> " "
       [] e = "&apos;" -> "'"]

\* text.replace(/&[#\w]+;/g, entity => htmlEntities[entity] || entity)
decodeHtmlEntities(text) ==
  [i \in DOMAIN text |->
     IF text[i] \in DOMAIN htmlEntities THEN htmlEntities[text[i]] ELSE text[i]]

toLowerCase(text) ==
  [i \in DOMAIN text |->
     CASE text[i] = "A" -> "a"
       [] text[i] = "B" -> "b"
       [] text[i] = "C" -> "c"
       [] text[i] = "D" -> "d"
       [] text[i] = "E" -> "e"
       [] text[i] = "F" -> "f"
       [] OTHER -> text[i]]

WhiteSpace == {" ", "\t", "\n"}

RECURSIVE stripWhiteSpace(_)
\* text.replace(/\s+/g, '')
stripWhiteSpace(text) ==
  IF text = <<>> THEN <<>>
  ELSE IF Head(text) \in WhiteSpace THEN stripWhiteSpace(Tail(text))
       ELSE <<Head(text)>> \o stripWhiteSpace(Tail(text))

\* question.toLowerCase().replace(/\s+/g, '').substring(0, 50)
questionId(question) == Take(stripWhiteSpace(toLowerCase(question)), ID_LENGTH)

(***************************************************************************)
(* Math.random: a generator whose state is drawn anew for each request     *)
(* from NumSeeds seeds; RandIndex(u, n) is Math.floor(Math.random() * n).  *)
(***************************************************************************)
RAND_MOD == 256

RAND_MUL == 141

RAND_INC == 87

RandNext(u) == (RAND_MUL * u + RAND_INC) % RAND_MOD

RandIndex(u, n) == (u * n) \div RAND_MOD

Seeds == {(97 * s + 11) % RAND_MOD : s \in 1..NumSeeds}

\* the states of the generator met by the requests of a provider
SeedsOf(provider) == IF provider = "browser" THEN {(97 + 11) % RAND_MOD} ELSE Seeds

RECURSIVE FisherYates(_, _, _)
\* the loop of shuffleArray; i is the 1-based index of the slot being filled
FisherYates(arr, i, u) ==
  IF i < 2 THEN [arr |-> arr, rng |-> u]
  ELSE LET j == RandIndex(u, i) + 1
       IN FisherYates([arr EXCEPT ![i] = arr[j], ![j] = arr[i]], i - 1, RandNext(u))

\* shuffleArray that draws every slot anew from the array instead of swapping
shuffleArrayDrawing(array, u) ==
  [arr |-> [i \in DOMAIN array |-> array[RandIndex(u, Len(array)) + 1]], rng |-> RandNext(u)]

shuffleArray(array, u) == FisherYates(array, Len(array), u)

\* Array.prototype.findIndex(ans => ans === x), 0-based, -1 when absent
findIndex(arr, x) ==
  IF \E i \in DOMAIN arr : arr[i] = x
  THEN (CHOOSE i \in DOMAIN arr : arr[i] = x /\ \A k \in 1..(i - 1) : arr[k] # x) - 1
  ELSE -1

Labels == <<"A", "B", "C", "D">>

\* answerKeyOf with a label array that lacks its last entry
answerKeyOfThree(correctIndex) ==
  IF correctIndex >= 0 /\ correctIndex < 3 THEN Labels[correctIndex + 1] ELSE Undefined

\* ['A', 'B', 'C', 'D'][correctIndex]
answerKeyOf(correctIndex) ==
  IF correctIndex >= 0 /\ correctIndex < Len(Labels) THEN Labels[correctIndex + 1] ELSE Undefined

\* shuffled[i] || ''  (i 0-based)
optionAt(shuffled, i) == IF i + 1 <= Len(shuffled) THEN shuffled[i + 1] ELSE <<>>

transformQuestion(apiQuestion, index, u) ==
  LET question == decodeHtmlEntities(apiQuestion.question)
      correctAnswer == decodeHtmlEntities(apiQuestion.correct_answer)
      incorrectAnswers == [i \in DOMAIN apiQuestion.incorrect_answers |->
                             decodeHtmlEntities(apiQuestion.incorrect_answers[i])]
      allAnswers == <<correctAnswer>> \o incorrectAnswers
      sh == shuffleArray(allAnswers, u)
      shuffled == sh.arr
      correctIndex == findIndex(shuffled, correctAnswer)
  IN [q |-> [question |-> question,
             A |-> optionAt(shuffled, 0),
             B |-> optionAt(shuffled, 1),
             C |-> optionAt(shuffled, 2),
             D |-> optionAt(shuffled, 3),
             answer |-> answerKeyOf(correctIndex),
             category |-> apiQuestion.category,
             difficulty |-> apiQuestion.difficulty,
             type |-> apiQuestion.type,
             _index |-> index,
             _questionId |-> questionId(question)],
      rng |-> sh.rng]

RECURSIVE transformAll(_, _, _)
\* apiQuestions.map((q, idx) => transformQuestion(q, idx)), idx the 0-based index
transformAll(apiQuestions, idx, u) ==
  IF idx >= Len(apiQuestions) THEN [qs |-> <<>>, rng |-> u]
  ELSE LET t == transformQuestion(apiQuestions[idx + 1], idx, u)
           rest == transformAll(apiQuestions, idx + 1, t.rng)
       IN [qs |-> <<t.q>> \o rest.qs, rng |-> rest.rng]

(***************************************************************************)
(* The Question Provider (opentdb.com, type=multiple): what one request    *)
(* for `amount` questions can be answered with.  The provider's catalogue  *)
(* holds NumTexts questions; questions 2k-1 and 2k differ in letter case   *)
(* and white space only.  A batch is a run of catalogue entries, cycling   *)
(* within a window of the catalogue.                                       *)
(***************************************************************************)
LowerLetters == <<"a", "b", "c", "d", "e", "f">>

UpperLetters == <<"A", "B", "C", "D", "E", "F">>

TextOf(k) ==
  IF k % 2 = 1 THEN <<LowerLetters[(k + 1) \div 2], "?">>
  ELSE <<UpperLetters[k \div 2], "&nbsp;", "?">>

RawQuestion(k) ==
  [category |-> "General Knowledge",
   type |-> "multiple",
   difficulty |-> "easy",
   question |-> TextOf(k),
   correct_answer |-> IF k % 2 = 1 THEN <<"r">> ELSE <<"&amp;", "r">>,
   incorrect_answers |-> << <<"x">>, <<"y">>, <<"&lt;", "z">> >>]

Batch(s, w, len) == [i \in 1..len |-> RawQuestion(s + ((i - 1) % w))]

BatchLengths(amount) == {1, amount - MIN_OVERFETCH, amount - 2, amount} \cap 1..amount

Windows == {sw \in (1..NumTexts) \X (1..NumTexts) : sw[1] + sw[2] - 1 <= NumTexts}

Batches(amount) ==
  {Batch(sw[1], sw[2], len) : sw \in Windows, len \in BatchLengths(amount)}

ResponseCodes == {1, 2}

ProviderReplies(amount) ==
  {[kind |-> "json", response_code |-> 0, results |-> b] : b \in Batches(amount)}
  \cup {[kind |-> "json", response_code |-> c, results |-> <<>>] : c \in ResponseCodes \cup {0}}
  \cup {[kind |-> k, response_code |-> 0, results |-> <<>>] : k \in {"garbage", "error", "silent"}}

\* the replies of a provider that serves one catalogue from its start
CatalogueReplies(amount) ==
  {[kind |-> "json", response_code |-> 0, results |-> Batch(1, NumTexts, len)] :
     len \in {amount - 2, amount} \cap 1..amount}
  \cup {[kind |-> "json", response_code |-> 1, results |-> <<>>]}
  \cup {[kind |-> k, response_code |-> 0, results |-> <<>>] : k \in {"error", "silent"}}

\* the replies a request for amount questions can meet
\* the replies of a provider whose category holds MaxBatch questions
CategoryReplies(amount) ==
  {[kind |-> "json", response_code |-> 0, results |-> Batch(1, NumTexts, len)] :
     len \in {Min(amount, MaxBatch) - 2, Min(amount, MaxBatch)} \cap 1..amount}
  \cup {[kind |-> "silent", response_code |-> 0, results |-> <<>>]}

RepliesOf(provider, amount) ==
  IF provider \in {"catalogue", "browser"} THEN CatalogueReplies(amount)
  ELSE IF provider = "category" THEN CategoryReplies(amount)
  ELSE ProviderReplies(amount)

NoReply == [kind |-> "none", response_code |-> 0, results |-> <<>>]

(***************************************************************************)
(* fetchQuestionsFromAPI: the outcome of one request, by the event that    *)
(* settles its promise.                                                    *)
(***************************************************************************)
MSG_NO_RESULTS == "No results found for the specified parameters. Try a different category or difficulty."

MSG_INVALID_PARAMETER == "Invalid parameter in API request."

MSG_TOKEN_NOT_FOUND == "Session token not found."

MSG_TOKEN_EMPTY == "Session token has returned all available questions."

MSG_FAILED == "Failed to fetch questions from Trivia API"

MSG_EMPTY == "No questions returned from Trivia API"

MSG_PARSE == "Failed to parse API response: Unexpected token"

MSG_NETWORK == "Network error fetching questions: socket hang up"

MSG_TIMEOUT == "Request timeout: Trivia API did not respond in time"

responseCodeMessage(code) ==
  CASE code = 1 -> MSG_NO_RESULTS
    [] code = 2 -> MSG_INVALID_PARAMETER
    [] code = 3 -> MSG_TOKEN_NOT_FOUND
    [] code = 4 -> MSG_TOKEN_EMPTY
    [] OTHER -> MSG_FAILED

Rejected(message) == [ok |-> FALSE, message |-> message, results |-> <<>>]

Resolved(results) == [ok |-> TRUE, message |-> "", results |-> results]

fetchQuestionsFromAPI(reply) ==
  CASE reply.kind = "silent" -> Rejected(MSG_TIMEOUT)
    [] reply.kind = "error" -> Rejected(MSG_NETWORK)
    [] reply.kind = "garbage" -> Rejected(MSG_PARSE)
    [] OTHER ->
         IF reply.response_code # 0 THEN Rejected(responseCodeMessage(reply.response_code))
         ELSE IF Len(reply.results) = 0 THEN Rejected(MSG_EMPTY)
         ELSE Resolved(reply.results)

(***************************************************************************)
(* getQuestionsExcludingUsed                                               *)
(***************************************************************************)
fetchAmountFor(usedCount, count) ==
  IF usedCount > 0 THEN Min(count + Max(usedCount, MIN_OVERFETCH), API_MAX) ELSE count

\* needsMore that does not stop at the requested count
needsMoreBelowFetchAmount(apiQuestions, fetchAmount, count) ==
  Len(apiQuestions) < fetchAmount

\* the condition of the supplemental fetch
needsMore(apiQuestions, fetchAmount, count) ==
  Len(apiQuestions) < fetchAmount /\ Len(apiQuestions) < count

additionalFetchFor(apiQuestions, count) ==
  Min((count - Len(apiQuestions)) + SUPPLEMENT_PAD, API_MAX - Len(apiQuestions))

\* additionalQuestions.filter(q => !existingQuestionTexts.has(q.question))
uniqueAdditional(apiQuestions, additionalQuestions) ==
  LET existingQuestionTexts == {apiQuestions[i].question : i \in DOMAIN apiQuestions}
      fresh(q) == q.question \notin existingQuestionTexts
  IN SelectSeq(additionalQuestions, fresh)

\* availableQuestionsOf without the filter
availableQuestionsUnfiltered(transformedQuestions, usedQuestionIds) == transformedQuestions

\* transformedQuestions.filter(q => !usedQuestionIds.includes(q._questionId))
availableQuestionsOf(transformedQuestions, usedQuestionIds) ==
  LET unused(q) == q._questionId \notin Range(usedQuestionIds)
  IN SelectSeq(transformedQuestions, unused)

\* selectFrom that takes a short batch for exhausted novelty: it serves the
\* unfiltered batch
selectFromShortIsExhausted(transformedQuestions, availableQuestions, apiCount, fetchAmount, count, u) ==
  IF Len(availableQuestions) < count
  THEN IF apiCount < fetchAmount
       THEN [path |-> "scarce",
             result |-> Take(transformedQuestions, Min(count, Len(transformedQuestions)))]
       ELSE IF Len(availableQuestions) > 0
            THEN [path |-> "partial", result |-> Take(availableQuestions, Len(availableQuestions))]
            ELSE [path |-> "fallback",
                  result |-> Take(transformedQuestions, Min(count, Len(transformedQuestions)))]
  ELSE [path |-> "normal", result |-> Take(shuffleArray(availableQuestions, u).arr, count)]

\* selectFrom without the fallback: a pool filtered to nothing is returned as
\* it is
selectFromNoFallback(transformedQuestions, availableQuestions, apiCount, fetchAmount, count, u) ==
  IF Len(availableQuestions) < count
  THEN IF apiCount < fetchAmount
       THEN [path |-> "scarce", result |-> Take(availableQuestions, Len(availableQuestions))]
       ELSE [path |-> IF Len(availableQuestions) > 0 THEN "partial" ELSE "fallback",
             result |-> Take(availableQuestions, Len(availableQuestions))]
  ELSE [path |-> "normal", result |-> Take(shuffleArray(availableQuestions, u).arr, count)]

\* selectFrom whose normal path returns the whole shuffled pool
selectFromUncut(transformedQuestions, availableQuestions, apiCount, fetchAmount, count, u) ==
  IF Len(availableQuestions) < count
  THEN IF apiCount < fetchAmount
       THEN [path |-> "scarce", result |-> Take(availableQuestions, Len(availableQuestions))]
       ELSE IF Len(availableQuestions) > 0
            THEN [path |-> "partial", result |-> Take(availableQuestions, Len(availableQuestions))]
            ELSE [path |-> "fallback",
                  result |-> Take(transformedQuestions, Min(count, Len(transformedQuestions)))]
  ELSE [path |-> "normal", result |-> shuffleArray(availableQuestions, u).arr]

\* the selection policy on the filtered pool
selectFrom(transformedQuestions, availableQuestions, apiCount, fetchAmount, count, u) ==
  IF Len(availableQuestions) < count
  THEN IF apiCount < fetchAmount
       THEN [path |-> "scarce", result |-> Take(availableQuestions, Len(availableQuestions))]
       ELSE IF Len(availableQuestions) > 0
            THEN [path |-> "partial", result |-> Take(availableQuestions, Len(availableQuestions))]
            ELSE [path |-> "fallback",
                  result |-> Take(transformedQuestions, Min(count, Len(transformedQuestions)))]
  ELSE [path |-> "normal", result |-> Take(shuffleArray(availableQuestions, u).arr, count)]

getQuestionsExcludingUsed(usedQuestionIds, count, reply1, reply2, u) ==
  LET usedCount == Len(usedQuestionIds)
      fetchAmount == fetchAmountFor(usedCount, count)
      first == fetchQuestionsFromAPI(reply1)
      more == first.ok /\ needsMore(first.results, fetchAmount, count)
                       /\ additionalFetchFor(first.results, count) > 0
      second == IF more THEN fetchQuestionsFromAPI(reply2) ELSE Rejected("")
      apiQuestions == IF more /\ second.ok /\ Len(second.results) > 0
                      THEN first.results \o uniqueAdditional(first.results, second.results)
                      ELSE first.results
      tr == transformAll(apiQuestions, 0, u)
      availableQuestions == availableQuestionsOf(tr.qs, usedQuestionIds)
      sel == selectFrom(tr.qs, availableQuestions, Len(apiQuestions), fetchAmount, count, tr.rng)
  IN IF ~first.ok
     THEN [ok |-> FALSE, message |-> first.message, result |-> <<>>, path |-> "failed",
           fetchAmount |-> fetchAmount, fetches |-> <<first.message>>,
           amounts |-> <<fetchAmount>>, firstCount |-> 0, apiQuestions |-> <<>>,
           usedQuestionIds |-> usedQuestionIds, count |-> count, fetchedIds |-> <<>>]
     ELSE [ok |-> TRUE, message |-> "", result |-> sel.result, path |-> sel.path,
           fetchAmount |-> fetchAmount,
           fetches |-> IF more THEN <<first.message, second.message>> ELSE <<first.message>>,
           amounts |-> IF more THEN <<fetchAmount, additionalFetchFor(first.results, count)>>
                       ELSE <<fetchAmount>>,
           firstCount |-> Len(first.results), apiQuestions |-> apiQuestions,
           usedQuestionIds |-> usedQuestionIds, count |-> count,
           fetchedIds |-> [i \in DOMAIN tr.qs |-> tr.qs[i]._questionId]]

(***************************************************************************)
(* State: the session document of the caller's token, the caller's         *)
(* persisted quizAttempts, the documents of the other users, the clock, a  *)
(* record of the last request (what                                        *)
(* was asked, what was answered, what was logged), and the number of       *)
(* requests made so far.                                                   *)
(***************************************************************************)
VARIABLES session, quizAttempts, others, now, last, budget, auth, fetch, inflight

vars == <<session, quizAttempts, others, now, last, budget, auth, fetch, inflight>>

NoSelection == [ok |-> FALSE, message |-> "", result |-> <<>>, path |-> "none",
                fetchAmount |-> 0, fetches |-> <<>>, amounts |-> <<>>, firstCount |-> 0,
                apiQuestions |-> <<>>,
                usedQuestionIds |-> <<>>,
                count |-> 0, fetchedIds |-> <<>>]

isActive(sess) == IsSome(sess.currentQuiz)

\* no request of the session is being handled; acked and submitted record
\* what the responses so far acknowledged
NoneInFlight == [reqs |-> <<>>, acked |-> [p \in {} |-> ""], submitted |-> None]

\* no request to the provider is in flight
NoRequest == [request |-> "none", reply |-> NoReply, chunks |-> 0, received |-> 0,
              queued |-> {}, timer |-> "none", elapsed |-> 0, promise |-> None,
              ignored |-> 0]

Request(op, args, status, body, log) ==
  [op |-> op, args |-> args, status |-> status, body |-> body, log |-> log,
   sel |-> NoSelection,
   before |-> [active |-> isActive(session),
               answered |-> IF isActive(session)
                            THEN Cardinality(DOMAIN session.currentQuiz[1].answers) ELSE 0,
               result |-> IsSome(session.quizResults)]]

Failure(message) == [success |-> FALSE, message |-> message]

NewSession == [usedQuestionIds |-> None, currentQuiz |-> None, quizResults |-> None]

\* the documents of the other users in the order in which User.find() returns
\* them; the caller's document comes after the first `me` of them
NoOthers == [docs |-> <<>>, me |-> 0]

\* the username of the k-th other user; the caller is user 0
UserName(k) == <<"user", k>>

CallerName == UserName(0)

\* auth: what identifies the requests of the browser at hand.  token: the
\* user in its JWT cookie; userId: req.session.userId of its session;
\* starter: the user whose request started the quiz of the session (kept
\* for the properties, the program does not store it); parked: the session
\* and the cookies of a second browser, if there is one
NoBrowser == <<>>

SignedIn(user) ==
  [token |-> Some(user), userId |-> Some(user), starter |-> None, parked |-> NoBrowser]

\* requireAuth: the user of a valid JWT cookie, else the user of the session
requestUser == IF IsSome(auth.token) THEN auth.token ELSE auth.userId

\* the stored attempts of a user
attemptsOf(user) ==
  IF user = CallerName THEN quizAttempts
  ELSE IF \E k \in DOMAIN others.docs : others.docs[k].username = user
       THEN others.docs[CHOOSE k \in DOMAIN others.docs :
                          others.docs[k].username = user].quizAttempts
       ELSE <<>>

\* user.quizAttempts.push(attempt); await user.save() on the document of user
storeAttempt(user, attempt) ==
  /\ quizAttempts' = IF user = CallerName THEN Append(quizAttempts, attempt) ELSE quizAttempts
  /\ others' = IF user = CallerName THEN others
               ELSE [others EXCEPT !.docs =
                       [k \in DOMAIN others.docs |->
                          IF others.docs[k].username = user
                          THEN [others.docs[k] EXCEPT !.quizAttempts = Append(@, attempt)]
                          ELSE others.docs[k]]]

LoggedIn ==
  [op |-> "login", args |-> <<>>, status |-> 200, body |-> [success |-> TRUE],
   log |-> <<>>, sel |-> NoSelection,
   before |-> [active |-> FALSE, answered |-> 0, result |-> FALSE]]

Init ==
  /\ session = NewSession
  /\ quizAttempts = <<>>
  /\ others = NoOthers
  /\ auth = SignedIn(CallerName)
  /\ fetch = NoRequest
  /\ inflight = NoneInFlight
  /\ now = 0
  /\ budget = [starts |-> 0, answers |-> 0, ticks |-> 0]
  /\ last = LoggedIn

TickSteps == {500}

\* time passes between two requests of an open quiz; the clock is read by
\* start and by submit only, and submit uses the difference of the readings
Tick ==
  /\ budget.ticks < MaxTicks
  /\ isActive(session)
  /\ \E d \in TickSteps : now' = now + d
  /\ budget' = [budget EXCEPT !.ticks = @ + 1]
  /\ UNCHANGED <<session, quizAttempts, others, last, auth, fetch, inflight>>

(***************************************************************************)
(* GET /api/quiz/start                                                     *)
(***************************************************************************)
\* initializeUsedQuestions that begins every start with an empty list
initializeUsedQuestionsAnew(sess) == [sess EXCEPT !.usedQuestionIds = Some(<<>>)]

initializeUsedQuestions(sess) ==
  LET s1 == IF IsSome(sess.usedQuestionIds) THEN sess
            ELSE [sess EXCEPT !.usedQuestionIds = Some(<<>>)]
  IN IF Len(s1.usedQuestionIds[1]) > LEDGER_HIGH
     THEN [s1 EXCEPT !.usedQuestionIds = Some(TakeLast(s1.usedQuestionIds[1], LEDGER_KEEP))]
     ELSE s1

\* req.query.amount: absent, the empty string, the string 'undefined', a
\* string that parseInt cannot read ("text"), a numeral ("int"), or a numeral
\* followed by other characters such as '2.7' or '2abc' ("prefixed")
AmountParams ==
  {[kind |-> k, v |-> 0] : k \in {"missing", "empty", "undefined", "text"}}
  \cup {[kind |-> "int", v |-> v] : v \in {-1, 0, 1, 3, 10, 11}}
  \cup {[kind |-> "prefixed", v |-> 2]}

\* (amountParam && amountParam !== 'undefined') ? parseInt(amountParam) : 10, NaN as None
parsedAmount(amountParam) ==
  CASE amountParam.kind \in {"missing", "empty", "undefined"} -> Some(DEFAULT_AMOUNT)
    [] amountParam.kind = "text" -> None
    [] OTHER -> Some(amountParam.v)

\* validAmountOf without the upper limit
validAmountOfUnlimited(amountParam) ==
  LET amount == parsedAmount(amountParam)
  IN IF amount = None \/ amount[1] < MIN_AMOUNT THEN MIN_AMOUNT ELSE amount[1]

validAmountOf(amountParam) ==
  LET amount == parsedAmount(amountParam)
  IN IF amount = None \/ amount[1] < MIN_AMOUNT THEN MIN_AMOUNT
     ELSE IF amount[1] > MAX_AMOUNT THEN MAX_AMOUNT
     ELSE amount[1]

\* trackUsed that records nothing once the ledger holds identifiers
trackUsedFirstQuizOnly(usedQuestionIds, selectedQuestionIds) ==
  IF Len(usedQuestionIds) > 0 THEN usedQuestionIds ELSE selectedQuestionIds

\* trackUsed that keeps the oldest identifiers
trackUsedOldest(usedQuestionIds, selectedQuestionIds) ==
  LET all == usedQuestionIds \o selectedQuestionIds
  IN IF Len(all) > LEDGER_HIGH THEN Take(all, LEDGER_KEEP) ELSE all

\* usedQuestionIds after the selected identifiers are appended
trackUsed(usedQuestionIds, selectedQuestionIds) ==
  LET all == usedQuestionIds \o selectedQuestionIds
  IN IF Len(all) > LEDGER_HIGH THEN TakeLast(all, LEDGER_KEEP) ELSE all

\* storedQuestion that stores the options A and B in each other's place
storedQuestionSwapped(q) ==
  [question |-> q.question, A |-> q.B, B |-> q.A, C |-> q.C, D |-> q.D,
   answer |-> q.answer, category |-> q.category, difficulty |-> q.difficulty,
   type |-> q.type]

\* the question as stored in the session: without _index and _questionId
storedQuestion(q) ==
  [question |-> q.question, A |-> q.A, B |-> q.B, C |-> q.C, D |-> q.D,
   answer |-> q.answer, category |-> q.category, difficulty |-> q.difficulty,
   type |-> q.type]

NoAnswers == [p \in {} |-> ""]

IntPos(v) == [kind |-> "int", v |-> v]

\* newQuiz with the start time of the epoch
newQuizStale(selectedQuestions, startTime) ==
  [questions |-> [i \in DOMAIN selectedQuestions |-> storedQuestion(selectedQuestions[i])],
   questionIds |-> [i \in DOMAIN selectedQuestions |-> selectedQuestions[i]._questionId],
   answers |-> NoAnswers,
   currentQuestionIndex |-> IntPos(0),
   startTime |-> 0]

newQuiz(selectedQuestions, startTime) ==
  [questions |-> [i \in DOMAIN selectedQuestions |-> storedQuestion(selectedQuestions[i])],
   questionIds |-> [i \in DOMAIN selectedQuestions |-> selectedQuestions[i]._questionId],
   answers |-> NoAnswers,
   currentQuestionIndex |-> IntPos(0),
   startTime |-> startTime]

\* formattedQuestion that keeps the answer field
formattedQuestionWithAnswer(q, index) ==
  [questionNumber |-> index + 1,
   question |-> q.question,
   options |-> [A |-> q.A, B |-> q.B, C |-> q.C, D |-> q.D],
   answer |-> q.answer]

\* the question as sent to the client
formattedQuestion(q, index) ==
  [questionNumber |-> index + 1,
   question |-> q.question,
   options |-> [A |-> q.A, B |-> q.B, C |-> q.C, D |-> q.D]]

formattedQuestions(selectedQuestions) ==
  [i \in DOMAIN selectedQuestions |-> formattedQuestion(selectedQuestions[i], i - 1)]

includesNoResultsFound(message) == message \in {MSG_NO_RESULTS}

\* includesNetworkErrorOrTimeout that does not recognise the timeout
includesNetworkErrorOnly(message) == message \in {MSG_NETWORK}

includesNetworkErrorOrTimeout(message) == message \in {MSG_NETWORK, MSG_TIMEOUT}

\* the catch block of the start handler, then errorHandler
startErrorStatus(message) ==
  IF includesNoResultsFound(message) THEN 400
  ELSE IF includesNetworkErrorOrTimeout(message) THEN 503
  ELSE 500

MSG_START_400 == "No questions found for the selected category. Please try a different category or try again later."

MSG_START_503 == "Unable to fetch questions from the trivia service. Please check your internet connection and try again."

startErrorBody(message) ==
  IF includesNoResultsFound(message) THEN Failure(MSG_START_400)
  ELSE IF includesNetworkErrorOrTimeout(message) THEN Failure(MSG_START_503)
  ELSE Failure(message)

\* the body of a successful start
startBody(selectedQuestions, validAmount) ==
  [success |-> TRUE,
   questions |-> formattedQuestions(selectedQuestions),
   totalQuestions |-> Len(selectedQuestions),
   requestedAmount |-> validAmount]

StartWith(amountParam, reply1, reply2, seed) ==
  LET cleared == initializeUsedQuestions([session EXCEPT !.currentQuiz = None])
      used == cleared.usedQuestionIds[1]
      validAmount == validAmountOf(amountParam)
      sel == getQuestionsExcludingUsed(used, validAmount, reply1, reply2, seed)
      selectedQuestionIds == [i \in DOMAIN sel.result |-> sel.result[i]._questionId]
  IN IF sel.ok
     THEN /\ session' = [cleared EXCEPT
                           !.usedQuestionIds = Some(trackUsed(used, selectedQuestionIds)),
                           !.currentQuiz = Some(newQuiz(sel.result, now))]
          /\ last' = [Request("start", <<amountParam>>, 200,
                              startBody(sel.result, validAmount), <<>>) EXCEPT !.sel = sel]
     ELSE /\ session' = cleared
          /\ last' = [Request("start", <<amountParam>>, startErrorStatus(sel.message),
                              startErrorBody(sel.message),
                              <<"Error fetching questions from Trivia API:", "Error starting quiz:">>)
                        EXCEPT !.sel = sel]

\* one start request, its inputs drawn from the given sets
StartFrom(Params, provider) ==
  /\ UNCHANGED <<quizAttempts, others, now>>
  /\ \E amountParam \in Params, seed \in SeedsOf(provider) :
       LET used == initializeUsedQuestions(session).usedQuestionIds[1]
           count == validAmountOf(amountParam)
           fetchAmount == fetchAmountFor(Len(used), count)
       IN \E reply1 \in RepliesOf(provider, fetchAmount) :
            LET first == fetchQuestionsFromAPI(reply1)
                more == first.ok /\ needsMore(first.results, fetchAmount, count)
                                 /\ additionalFetchFor(first.results, count) > 0
            IN \E reply2 \in IF more
                             THEN RepliesOf(provider, additionalFetchFor(first.results, count))
                             ELSE {NoReply} :
                 StartWith(amountParam, reply1, reply2, seed)
  /\ auth' = [auth EXCEPT !.starter = IF isActive(session') THEN requestUser ELSE @]
  /\ UNCHANGED <<fetch, inflight>>

(***************************************************************************)
(* POST /api/quiz/answer                                                   *)
(***************************************************************************)
\* req.body.questionIndex: absent, an integer, an integer plus one half, or
\* a string that is not a numeral
UndefinedPos == [kind |-> "undefined", v |-> 0]

HalfPos(v) == [kind |-> "half", v |-> v]

TextPos == [kind |-> "text", v |-> 0]

\* questionIndex < 0 as JavaScript evaluates it
lessThanZero(questionIndex) ==
  CASE questionIndex.kind = "int" -> questionIndex.v < 0
    [] questionIndex.kind = "half" -> questionIndex.v < 0
    [] OTHER -> FALSE

\* questionIndex >= totalQuestions as JavaScript evaluates it
atLeast(questionIndex, totalQuestions) ==
  CASE questionIndex.kind = "int" -> questionIndex.v >= totalQuestions
    [] questionIndex.kind = "half" -> questionIndex.v >= totalQuestions
    [] OTHER -> FALSE

invalidIndex(questionIndex, totalQuestions) ==
  lessThanZero(questionIndex) \/ atLeast(questionIndex, totalQuestions)

\* storeAnswer that keeps an answer already stored
storeAnswerFirstWins(answers, questionIndex, answer) ==
  [p \in DOMAIN answers \cup {questionIndex} |->
     IF p \in DOMAIN answers THEN answers[p] ELSE answer]

\* quiz.answers[questionIndex] = answer
storeAnswer(answers, questionIndex, answer) ==
  [p \in DOMAIN answers \cup {questionIndex} |->
     IF p = questionIndex THEN answer ELSE answers[p]]

\* answeredQuiz that forgets the answers at the other positions
answeredQuizAlone(quiz, questionIndex, answer) ==
  [quiz EXCEPT !.answers = storeAnswer(NoAnswers, questionIndex, answer),
               !.currentQuestionIndex = questionIndex]

\* quiz.answers[questionIndex] = answer; quiz.currentQuestionIndex = questionIndex
answeredQuiz(quiz, questionIndex, answer) ==
  [quiz EXCEPT !.answers = storeAnswer(quiz.answers, questionIndex, answer),
               !.currentQuestionIndex = questionIndex]

\* userAnswers[index]
answerAt(answers, index) ==
  IF IntPos(index) \in DOMAIN answers THEN answers[IntPos(index)] ELSE Undefined

MSG_NO_ACTIVE == "No active quiz session. Please start a quiz first."

MSG_PROVIDE == "Please provide questionIndex and answer"

MSG_INVALID_INDEX == "Invalid question index. Must be between 0 and totalQuestions - 1"

answerBody(quiz, totalQuestions) ==
  [success |-> TRUE,
   message |-> "Answer saved successfully",
   currentQuestionIndex |-> quiz.currentQuestionIndex,
   totalQuestions |-> totalQuestions]

AnswerWith(questionIndex, answer) ==
  IF ~isActive(session)
  THEN /\ last' = Request("answer", <<questionIndex, answer>>, 400, Failure(MSG_NO_ACTIVE),
                          <<"Quiz answer failed - no currentQuiz in session:">>)
       /\ UNCHANGED session
  ELSE IF questionIndex = UndefinedPos \/ answer = Undefined
  THEN /\ last' = Request("answer", <<questionIndex, answer>>, 400, Failure(MSG_PROVIDE), <<>>)
       /\ UNCHANGED session
  ELSE LET quiz == session.currentQuiz[1]
           totalQuestions == Len(quiz.questions)
           answered == answeredQuiz(quiz, questionIndex, answer)
       IN IF invalidIndex(questionIndex, totalQuestions)
          THEN /\ last' = Request("answer", <<questionIndex, answer>>, 400,
                                  Failure(MSG_INVALID_INDEX), <<>>)
               /\ UNCHANGED session
          ELSE /\ session' = [session EXCEPT !.currentQuiz = Some(answered)]
               /\ last' = Request("answer", <<questionIndex, answer>>, 200,
                                  answerBody(answered, totalQuestions), <<>>)

\* one answer request, drawn from the given requests
AnswerFrom(Requests) ==
  /\ UNCHANGED <<quizAttempts, others, now, auth, fetch, inflight>>
  /\ \E r \in Requests : AnswerWith(r[1], r[2])

\* quiz.questions.length of the active quiz
questionCount(sess) == IF isActive(sess) THEN Len(sess.currentQuiz[1].questions) ELSE 0

(***************************************************************************)
(* POST /api/quiz/submit                                                   *)
(***************************************************************************)
\* Math.round(num / den) for num >= 0, den > 0
MathRound(num, den) == (2 * num + den) \div (2 * den)

\* userAnswer === correctAnswer
isCorrectAnswer(userAnswer, correctAnswer) == userAnswer = correctAnswer

\* userAnswer || null
orNull(userAnswer) == IF userAnswer = Undefined \/ userAnswer = "" THEN Null ELSE userAnswer

questionResult(question, index, userAnswer) ==
  [questionNumber |-> index + 1,
   question |-> question.question,
   options |-> [A |-> question.A, B |-> question.B, C |-> question.C, D |-> question.D],
   userAnswer |-> orNull(userAnswer),
   correctAnswer |-> question.answer,
   isCorrect |-> isCorrectAnswer(userAnswer, question.answer)]

\* scoreOf with the percentage truncated instead of rounded
scoreOfTruncated(correctCount, totalQuestions) ==
  IF totalQuestions > 0 THEN (correctCount * 100) \div totalQuestions ELSE 0

scoreOf(correctCount, totalQuestions) ==
  IF totalQuestions > 0 THEN MathRound(correctCount * 100, totalQuestions) ELSE 0

scoreQuiz(quiz, endTime) ==
  LET questions == quiz.questions
      totalQuestions == Len(questions)
      results == [i \in DOMAIN questions |->
                    questionResult(questions[i], i - 1, answerAt(quiz.answers, i - 1))]
      correctCount == Cardinality({i \in DOMAIN results : results[i].isCorrect})
  IN [score |-> scoreOf(correctCount, totalQuestions),
      correctCount |-> correctCount,
      totalQuestions |-> totalQuestions,
      incorrectCount |-> totalQuestions - correctCount,
      timeTaken |-> MathRound(endTime - quiz.startTime, 1000),
      results |-> results,
      submittedAt |-> endTime]

attemptOf(quizResults) ==
  [score |-> quizResults.score,
   correctCount |-> quizResults.correctCount,
   totalQuestions |-> quizResults.totalQuestions,
   incorrectCount |-> quizResults.incorrectCount,
   timeTaken |-> quizResults.timeTaken,
   date |-> quizResults.submittedAt,
   questions |-> quizResults.results]

\* what User.findById and user.save do in one request
DbOutcomes == {"saved", "notFound", "findThrows", "saveThrows"}

\* submittedSession without clearing the quiz
submittedSessionKeepsQuiz(sess, quizResults) ==
  [sess EXCEPT !.quizResults = Some(quizResults)]

\* the session after scoring
submittedSession(sess, quizResults) ==
  [sess EXCEPT !.quizResults = Some(quizResults), !.currentQuiz = None]

MSG_DB_ERROR == "Error saving quiz attempt to database:"

\* submitResponse without the catch around the database calls
submitResponseRethrown(db, quizResults) ==
  IF db \in {"findThrows", "saveThrows"}
  THEN Request("submit", <<>>, 500, Failure("database error"), <<MSG_DB_ERROR>>)
  ELSE Request("submit", <<>>, 200, [success |-> TRUE] @@ quizResults, <<>>)

\* the response of a submit that scored a quiz; an error of the database is
\* logged and does not fail the request
submitResponse(db, quizResults) ==
  Request("submit", <<>>, 200, [success |-> TRUE] @@ quizResults,
          IF db \in {"findThrows", "saveThrows"} THEN <<MSG_DB_ERROR>> ELSE <<>>)

\* SubmitWith without the check for an active quiz: scores an empty quiz
SubmitWithUnguarded(db) ==
  LET quiz == IF isActive(session) THEN session.currentQuiz[1] ELSE newQuiz(<<>>, now)
      quizResults == scoreQuiz(quiz, now)
  IN /\ session' = submittedSession(session, quizResults)
     /\ IF db = "saved" THEN storeAttempt(requestUser[1], attemptOf(quizResults))
        ELSE UNCHANGED <<quizAttempts, others>>
     /\ last' = Request("submit", <<>>, 200, [success |-> TRUE] @@ quizResults, <<>>)

SubmitWith(db) ==
  IF ~isActive(session)
  THEN /\ last' = Request("submit", <<>>, 400, Failure(MSG_NO_ACTIVE),
                          <<"Quiz submission failed - no currentQuiz in session:">>)
       /\ UNCHANGED <<session, quizAttempts, others>>
  ELSE LET quizResults == scoreQuiz(session.currentQuiz[1], now)
       IN /\ session' = submittedSession(session, quizResults)
          /\ IF db = "saved" THEN storeAttempt(requestUser[1], attemptOf(quizResults))
             ELSE UNCHANGED <<quizAttempts, others>>
          /\ last' = submitResponse(db, quizResults)

SubmitFrom(Dbs) ==
  /\ UNCHANGED <<now, auth, fetch, inflight>>
  /\ \E db \in Dbs :
       /\ (db = "saved" /\ isActive(session)) => Len(attemptsOf(requestUser[1])) < MaxAttempts
       /\ SubmitWith(db)

(***************************************************************************)
(* POST /api/quiz/save, GET /api/quiz/results, POST /api/quiz/reset        *)
(***************************************************************************)
SaveWith(db) ==
  IF ~IsSome(session.quizResults)
  THEN /\ last' = Request("save", <<>>, 400,
                          Failure("No quiz results to save. Please complete a quiz first."), <<>>)
       /\ UNCHANGED <<quizAttempts, others>>
  ELSE IF db = "findThrows" \/ db = "saveThrows"
  THEN /\ last' = Request("save", <<>>, 500, Failure("database error"), <<"Error:">>)
       /\ UNCHANGED <<quizAttempts, others>>
  ELSE IF db = "notFound"
  THEN /\ last' = Request("save", <<>>, 404, Failure("User not found."), <<>>)
       /\ UNCHANGED <<quizAttempts, others>>
  ELSE /\ storeAttempt(requestUser[1], attemptOf(session.quizResults[1]))
       /\ last' = Request("save", <<>>, 200,
                          [success |-> TRUE, message |-> "Quiz attempt saved successfully"], <<>>)

SaveFrom(Dbs) ==
  /\ UNCHANGED <<session, now, auth, fetch, inflight>>
  /\ \E db \in Dbs :
       /\ (db = "saved" /\ IsSome(session.quizResults))
            => Len(attemptsOf(requestUser[1])) < MaxAttempts
       /\ SaveWith(db)

QuizResults ==
  /\ UNCHANGED <<session, quizAttempts, others, now, budget, auth, fetch, inflight>>
  /\ last' = IF ~IsSome(session.quizResults)
             THEN Request("results", <<>>, 404,
                          Failure("No quiz results found. Please complete a quiz first."), <<>>)
             ELSE Request("results", <<>>, 200, [success |-> TRUE] @@ session.quizResults[1], <<>>)

\* resetSession that leaves the last result in the session
resetSessionKeepsResult(sess) ==
  [sess EXCEPT !.usedQuestionIds = Some(<<>>), !.currentQuiz = None]

\* the session after reset
resetSession(sess) ==
  [sess EXCEPT !.usedQuestionIds = Some(<<>>), !.currentQuiz = None, !.quizResults = None]

QuizReset ==
  /\ UNCHANGED <<quizAttempts, others, now, budget, auth, fetch, inflight>>
  /\ session' = resetSession(session)
  /\ last' = Request("reset", <<>>, 200,
                     [success |-> TRUE, message |-> "Quiz history reset successfully"], <<>>)

(***************************************************************************)
(* User documents, GET /api/user/profile, GET /api/leaderboard.  A number  *)
(* with two decimals is held as its number of hundredths.                  *)
(***************************************************************************)
TOP_N == 10

RECURSIVE sumScores(_)
\* quizAttempts.reduce((acc, attempt) => acc + attempt.score, 0)
sumScores(attempts) ==
  IF attempts = <<>> THEN 0 ELSE attempts[1].score + sumScores(Tail(attempts))

\* Math.max(...quizAttempts.map(attempt => attempt.score)), null without attempts
getBestScore(attempts) ==
  IF Len(attempts) = 0 THEN None
  ELSE Some(CHOOSE m \in {attempts[i].score : i \in DOMAIN attempts} :
              \A i \in DOMAIN attempts : attempts[i].score <= m)

\* (x).toFixed(2) of x = sum / n, as hundredths
toFixed2(sum, n) == (200 * sum + n) \div (2 * n)

\* the number 0 without attempts, else the string (sum / length).toFixed(2)
getAverageScore(attempts) ==
  IF Len(attempts) = 0 THEN [kind |-> "number", hundredths |-> 0]
  ELSE [kind |-> "string", hundredths |-> toFixed2(sumScores(attempts), Len(attempts))]

\* a value in a condition: a string of digits is true, the number 0 is not
truthy(value) == value.kind = "string" \/ value.hundredths # 0

\* averageOrNull that takes the text of a zero for the number zero
averageOrNullZeroIsNull(averageScore) ==
  IF averageScore.hundredths # 0 THEN Some(averageScore.hundredths) ELSE None

\* averageScore ? parseFloat(averageScore) : null
averageOrNull(averageScore) ==
  IF truthy(averageScore) THEN Some(averageScore.hundredths) ELSE None

\* User.find(): the documents of all users; a caller whose document is gone
\* is not among them
allUsersOf(found) ==
  LET callerDoc == [username |-> CallerName, quizAttempts |-> quizAttempts]
  IN SubSeq(others.docs, 1, others.me)
       \o (IF found THEN <<callerDoc>> ELSE <<>>)
       \o SubSeq(others.docs, others.me + 1, Len(others.docs))

\* the entry of a user with attempts
playerOf(user) ==
  [username |-> user.username,
   bestScore |-> getBestScore(user.quizAttempts),
   averageScore |-> averageOrNull(getAverageScore(user.quizAttempts)),
   totalAttempts |-> Len(user.quizAttempts)]

\* compareBestScore with the two sides exchanged: lowest best score first
compareBestScoreAscending(a, b) ==
  IF ~IsSome(b.bestScore) /\ ~IsSome(a.bestScore) THEN 0
  ELSE IF ~IsSome(b.bestScore) THEN -1
  ELSE IF ~IsSome(a.bestScore) THEN 1
  ELSE a.bestScore[1] - b.bestScore[1]

\* the comparison function of the leaderboard: negative, zero or positive
compareBestScore(a, b) ==
  IF ~IsSome(b.bestScore) /\ ~IsSome(a.bestScore) THEN 0
  ELSE IF ~IsSome(b.bestScore) THEN -1
  ELSE IF ~IsSome(a.bestScore) THEN 1
  ELSE b.bestScore[1] - a.bestScore[1]

\* one step of a stable sort: x goes behind everything that is not to follow it
insertPlayer(sorted, x) ==
  LET k == Cardinality({i \in DOMAIN sorted : compareBestScore(sorted[i], x) <= 0})
  IN SubSeq(sorted, 1, k) \o <<x>> \o SubSeq(sorted, k + 1, Len(sorted))

RECURSIVE sortPlayers(_)
\* Array.prototype.sort with compareBestScore (stable)
sortPlayers(players) ==
  IF players = <<>> THEN <<>>
  ELSE insertPlayer(sortPlayers(SubSeq(players, 1, Len(players) - 1)), players[Len(players)])

\* playersWithScores without the filter for users without attempts
playersWithScoresUnfiltered(allUsers) ==
  sortPlayers([i \in DOMAIN allUsers |-> playerOf(allUsers[i])])

\* allUsers.map(...).filter(player => player !== null).sort(...)
playersWithScores(allUsers) ==
  LET hasAttempts(user) == Len(user.quizAttempts) > 0
      qualified == SelectSeq(allUsers, hasAttempts)
  IN sortPlayers([i \in DOMAIN qualified |-> playerOf(qualified[i])])

\* currentUserRankOf that looks the user up in the first TOP_N places only
currentUserRankInTop(players, username) ==
  IF \E i \in DOMAIN Take(players, TOP_N) : players[i].username = username
  THEN Some(CHOOSE i \in DOMAIN players : players[i].username = username)
  ELSE None

\* playersWithScores.findIndex(player => player.username === username) + 1, or null
currentUserRankOf(players, username) ==
  IF \E i \in DOMAIN players : players[i].username = username
  THEN Some(CHOOSE i \in DOMAIN players :
              /\ players[i].username = username
              /\ \A k \in 1..(i - 1) : players[k].username # username)
  ELSE None

leaderboardBody(found) ==
  LET players == playersWithScores(allUsersOf(found))
  IN [success |-> TRUE,
      leaderboard |-> Take(players, TOP_N),
      currentUser |->
        IF found
        THEN Some([username |-> CallerName,
                   rank |-> currentUserRankOf(players, CallerName),
                   bestScore |-> getBestScore(quizAttempts),
                   averageScore |-> averageOrNull(getAverageScore(quizAttempts)),
                   totalAttempts |-> Len(quizAttempts)])
        ELSE None]

\* the history entry of an attempt
historyEntry(attempt) ==
  [score |-> attempt.score,
   correctCount |-> attempt.correctCount,
   totalQuestions |-> attempt.totalQuestions,
   incorrectCount |-> attempt.incorrectCount,
   timeTaken |-> attempt.timeTaken,
   date |-> attempt.date]

insertByDate(sorted, x) ==
  LET k == Cardinality({i \in DOMAIN sorted : x.date - sorted[i].date <= 0})
  IN SubSeq(sorted, 1, k) \o <<x>> \o SubSeq(sorted, k + 1, Len(sorted))

RECURSIVE sortByDate(_)
\* .sort((a, b) => new Date(b.date) - new Date(a.date))
sortByDate(entries) ==
  IF entries = <<>> THEN <<>>
  ELSE insertByDate(sortByDate(SubSeq(entries, 1, Len(entries) - 1)), entries[Len(entries)])

statsOf(attempts) ==
  [totalQuizzes |-> Len(attempts),
   averageScore |-> averageOrNull(getAverageScore(attempts)),
   bestScore |-> getBestScore(attempts)]

profileBody(attempts) ==
  [success |-> TRUE,
   user |-> [username |-> CallerName],
   stats |-> statsOf(attempts),
   history |-> sortByDate([i \in DOMAIN attempts |-> historyEntry(attempts[i])])]

\* GET /api/user/profile; found: whether User.findById returns the caller
UserProfile ==
  /\ UNCHANGED <<session, quizAttempts, others, now, budget, auth, fetch, inflight>>
  /\ \E found \in BOOLEAN :
       last' = IF found
               THEN Request("profile", <<found>>, 200, profileBody(quizAttempts), <<>>)
               ELSE Request("profile", <<found>>, 404, Failure("User not found."), <<>>)

\* GET /api/leaderboard
Leaderboard ==
  /\ UNCHANGED <<session, quizAttempts, others, now, budget, auth, fetch, inflight>>
  /\ \E found \in BOOLEAN :
       last' = Request("leaderboard", <<found>>, 200, leaderboardBody(found), <<>>)

(***************************************************************************)
(* Spec: one browser session from login on, against a provider that        *)
(* serves its catalogue in order.                                          *)
(***************************************************************************)
BrowserAmountParams == {[kind |-> "int", v |-> 3]}

BrowserAnswers(totalQuestions) ==
  {<<IntPos(0), "A">>, <<IntPos(15), "A">>}

BrowserDbOutcomes == {"saved"}

QuizStart ==
  /\ budget.starts < MaxStarts
  /\ budget' = [budget EXCEPT !.starts = @ + 1]
  /\ StartFrom(BrowserAmountParams, "browser")

QuizAnswer == AnswerFrom(BrowserAnswers(questionCount(session))) /\ UNCHANGED budget

QuizSubmit == SubmitFrom(BrowserDbOutcomes) /\ UNCHANGED budget

QuizSave == SaveFrom(BrowserDbOutcomes) /\ UNCHANGED budget

Next ==
  \/ Tick
  \/ QuizStart
  \/ QuizAnswer
  \/ QuizSubmit
  \/ QuizResults
  \/ QuizReset

Spec == Init /\ [][Next]_vars

(***************************************************************************)
(* SpecSelect: one start request against every reply of the provider, in   *)
(* a session without a quiz whose ledger holds up to MaxSeen identifiers   *)
(* of the catalogue (the ledger that earlier one-question quizzes leave,   *)
(* the last of them abandoned by a failed start).                          *)
(***************************************************************************)
CatalogueIds == {questionId(decodeHtmlEntities(TextOf(k))) : k \in 1..NumTexts}

Ledgers == UNION {[1..n -> CatalogueIds] : n \in 0..MaxSeen}

InitSelect ==
  /\ \E ledger \in {None} \cup {Some(l) : l \in Ledgers} :
       session = [NewSession EXCEPT !.usedQuestionIds = ledger]
  /\ quizAttempts = <<>>
  /\ others = NoOthers
  /\ auth = SignedIn(CallerName)
  /\ fetch = NoRequest
  /\ inflight = NoneInFlight
  /\ now = 0
  /\ budget = [starts |-> 0, answers |-> 0, ticks |-> 0]
  /\ last = LoggedIn

SelectAmountParams ==
  {[kind |-> "missing", v |-> 0], [kind |-> "int", v |-> 3], [kind |-> "int", v |-> 2]}

AnyStart ==
  /\ budget.starts = 0
  /\ budget' = [budget EXCEPT !.starts = @ + 1]
  /\ StartFrom(SelectAmountParams, "any")

NextSelect == AnyStart

SpecSelect == InitSelect /\ [][NextSelect]_vars

(***************************************************************************)
(* SpecQuiz: one quiz, answered by any requests and submitted, in a new    *)
(* session or in a session that has served the catalogue before.           *)
(***************************************************************************)
\* the ledger after a first quiz of three questions
SeenAfterQuiz ==
  LET sel == getQuestionsExcludingUsed(<<>>, 3,
               [kind |-> "json", response_code |-> 0, results |-> Batch(1, NumTexts, 3)],
               NoReply, CHOOSE u \in Seeds : TRUE)
  IN trackUsed(<<>>, [i \in DOMAIN sel.result |-> sel.result[i]._questionId])

InitQuiz ==
  /\ \E ledger \in {None, Some(SeenAfterQuiz)} :
       session = [NewSession EXCEPT !.usedQuestionIds = ledger]
  /\ quizAttempts = <<>>
  /\ others = NoOthers
  /\ auth = SignedIn(CallerName)
  /\ fetch = NoRequest
  /\ inflight = NoneInFlight
  /\ now = 0
  /\ budget = [starts |-> 0, answers |-> 0, ticks |-> 0]
  /\ last = LoggedIn

QuizAmountParams ==
  {[kind |-> "missing", v |-> 0], [kind |-> "int", v |-> 2], [kind |-> "int", v |-> 3]}

\* the answer requests: every label at the first two positions, one label at
\* the other positions, and the requests with a missing field
AnswerRequests(totalQuestions) ==
  ({IntPos(0), IntPos(1)} \X {"A", "B", "C", "D"})
  \cup ({IntPos(-1), IntPos(totalQuestions), IntPos(15), HalfPos(0), TextPos, UndefinedPos}
        \X {"A"})
  \cup {<<IntPos(0), Undefined>>}

FirstStart ==
  /\ budget.starts = 0
  /\ budget' = [budget EXCEPT !.starts = @ + 1]
  /\ StartFrom(QuizAmountParams, "catalogue")

AnyAnswer ==
  /\ budget.answers < MaxAnswers
  /\ budget' = [budget EXCEPT !.answers = @ + 1]
  /\ AnswerFrom(AnswerRequests(questionCount(session)))

AnySubmit == SubmitFrom(DbOutcomes) /\ UNCHANGED budget

NextQuiz ==
  \/ FirstStart
  \/ AnyAnswer
  \/ AnySubmit
  \/ QuizResults

SpecQuiz == InitQuiz /\ [][NextQuiz]_vars

(***************************************************************************)
(* SpecBoard: the store holds the documents of up to MaxOthers other       *)
(* users with up to MaxAttempts earlier attempts each, the caller has      *)
(* earlier attempts too and has just started a quiz of three questions;    *)
(* the caller answers, submits, saves and reads profile and leaderboard.   *)
(* Of an earlier attempt only the figures are kept, not its questions.     *)
(***************************************************************************)
\* an attempt at a quiz of totalQuestions questions with correctCount right
attemptWith(correctCount, totalQuestions) ==
  [score |-> scoreOf(correctCount, totalQuestions),
   correctCount |-> correctCount,
   totalQuestions |-> totalQuestions,
   incorrectCount |-> totalQuestions - correctCount,
   timeTaken |-> 0,
   date |-> 0,
   questions |-> <<>>]

\* attempts scoring 90, 70, 0, 100 and 33
AttemptKinds ==
  <<attemptWith(9, 10), attemptWith(7, 10), attemptWith(0, 3), attemptWith(3, 3),
    attemptWith(1, 3)>>

\* the history of len attempts that starts at the kind after off
History(off, len) == [i \in 1..len |-> AttemptKinds[((off + i - 1) % Len(AttemptKinds)) + 1]]

Histories == {History(off, len) : off \in 0..(Len(AttemptKinds) - 1), len \in 0..MaxAttempts}

OtherCounts == {0, 1, 2, MaxOthers}

StoreShifts == {0, 1, 2}

\* the documents of n other users; about one in MaxAttempts + 1 has no attempt
OtherDocs(n, off) ==
  [k \in 1..n |-> [username |-> UserName(k),
                   quizAttempts |-> History(off + k - 1, (off + k) % (MaxAttempts + 1))]]

Stores ==
  UNION {{[docs |-> OtherDocs(n, off), me |-> me] : off \in StoreShifts, me \in {0, n}} :
           n \in OtherCounts}

\* the session after the first start of a quiz of three questions
StartedSession ==
  LET sel == getQuestionsExcludingUsed(<<>>, 3,
               [kind |-> "json", response_code |-> 0, results |-> Batch(1, NumTexts, 3)],
               NoReply, CHOOSE u \in Seeds : TRUE)
      selectedQuestionIds == [i \in DOMAIN sel.result |-> sel.result[i]._questionId]
  IN [usedQuestionIds |-> Some(trackUsed(<<>>, selectedQuestionIds)),
      currentQuiz |-> Some(newQuiz(sel.result, 0)),
      quizResults |-> None]

InitBoard ==
  /\ session = StartedSession
  /\ quizAttempts \in Histories
  /\ others \in Stores
  /\ auth = [SignedIn(CallerName) EXCEPT !.starter = Some(CallerName)]
  /\ fetch = NoRequest
  /\ inflight = NoneInFlight
  /\ now = 0
  /\ budget = [starts |-> 1, answers |-> 0, ticks |-> 0]
  /\ last = LoggedIn

BoardAnswers == {<<IntPos(0), "A">>}

BoardDbOutcomes == {"saved", "saveThrows"}

BoardAnswer == AnswerFrom(BoardAnswers) /\ UNCHANGED budget

BoardSubmit == SubmitFrom(BoardDbOutcomes) /\ UNCHANGED budget

NextBoard ==
  \/ BoardAnswer
  \/ BoardSubmit
  \/ QuizSave
  \/ UserProfile
  \/ Leaderboard

SpecBoard == InitBoard /\ [][NextBoard]_vars

(***************************************************************************)
(* Properties.                                                             *)
(***************************************************************************)
StartStep == last'.op = "start" /\ budget'.starts # budget.starts

AnswerStep == last'.op = "answer" /\ (last' # last \/ session' # session)

SubmitStep ==
  last'.op = "submit" /\ (last' # last \/ session' # session \/ quizAttempts' # quizAttempts)

ResultsStep == last'.op = "results" /\ last' # last

Succeeded(op) == last.op = op /\ last.status = 200

\* the positions of a quiz of n questions
validPosition(questionIndex, n) ==
  questionIndex.kind = "int" /\ questionIndex.v >= 0 /\ questionIndex.v < n

\* C1: every successful submit reports score = round(100 * correctCount /
\* totalQuestions) with halves rounded up, score 0 for a quiz without
\* questions, and correctCount + incorrectCount = totalQuestions; a quiz with
\* questions whose every position holds the correct label scores 100 with
\* incorrectCount 0.
C1_ScoreFormula ==
  [][(SubmitStep /\ last'.status = 200) =>
       LET r == last'.body
           quiz == session.currentQuiz[1]
           t == r.totalQuestions
           c == r.correctCount
       IN /\ t = Len(quiz.questions)
          /\ c + r.incorrectCount = t
          /\ t = 0 => r.score = 0
          /\ t > 0 => /\ 2 * t * r.score <= 200 * c + t
                      /\ 200 * c + t < 2 * t * (r.score + 1)
          /\ (t > 0 /\ \A i \in 1..t :
                         /\ IntPos(i - 1) \in DOMAIN quiz.answers
                         /\ quiz.answers[IntPos(i - 1)] = quiz.questions[i].answer)
               => (r.score = 100 /\ r.incorrectCount = 0 /\ c = t)]_vars

\* a quiz of three questions was submitted with two correct answers (67)
C1_Witness ==
  /\ Succeeded("submit")
  /\ last.body.totalQuestions = 3
  /\ last.body.correctCount = 2
  /\ last.body.score = 67

\* C2: at submit, a position without a stored answer is never counted as
\* correct; a submit with no position answered yields score 0, correctCount 0.
C2_UnansweredIsWrong ==
  [][(SubmitStep /\ last'.status = 200) =>
       LET r == last'.body
           quiz == session.currentQuiz[1]
       IN /\ \A i \in DOMAIN r.results :
               r.results[i].isCorrect => IntPos(i - 1) \in DOMAIN quiz.answers
          /\ (\A i \in DOMAIN r.results : IntPos(i - 1) \notin DOMAIN quiz.answers)
               => (r.score = 0 /\ r.correctCount = 0)]_vars

\* a quiz with questions was submitted without any answer
C2_Witness ==
  /\ Succeeded("submit")
  /\ last.body.totalQuestions > 1
  /\ last.before.answered = 0
  /\ last.body.score = 0
  /\ \A i \in DOMAIN last.body.results : ~last.body.results[i].isCorrect

\* C3: after a successful submit the session has no active quiz and holds
\* the returned result; while there is no active quiz every answer and submit
\* fails with NoActiveSession, only a successful start makes a quiz active,
\* and reading the last result returns the stored result and changes nothing.
C3_AfterSubmit ==
  /\ [](Succeeded("submit") =>
          /\ ~isActive(session)
          /\ IsSome(session.quizResults)
          /\ last.body = [success |-> TRUE] @@ session.quizResults[1])
  /\ [][/\ ((AnswerStep \/ SubmitStep) /\ ~isActive(session)) =>
             (last'.status = 400 /\ last'.body = Failure(MSG_NO_ACTIVE) /\ ~isActive(session'))
        /\ (~isActive(session) /\ isActive(session')) => (StartStep /\ last'.status = 200)
        /\ session'.quizResults # session.quizResults =>
             ((SubmitStep /\ last'.status = 200) \/ last'.op = "reset")
        /\ ResultsStep =>
             /\ UNCHANGED <<session, quizAttempts>>
             /\ IsSome(session.quizResults) =>
                  (last'.status = 200 /\ last'.body = [success |-> TRUE] @@ session.quizResults[1])
       ]_vars

\* after a submit, an answer was refused and the result is still held
C3_Witness ==
  /\ last.op = "answer"
  /\ last.status = 400
  /\ last.before.result
  /\ ~last.before.active
  /\ IsSome(session.quizResults)
  /\ session.quizResults[1].totalQuestions > 0

\* C4: answer and submit without an active quiz fail with NoActiveSession and
\* leave the session (ledger, last result) and the persisted attempts as
\* they were.
C4_NoActiveSession ==
  [][((AnswerStep \/ SubmitStep) /\ ~isActive(session)) =>
       /\ last'.status = 400
       /\ last'.body = Failure(MSG_NO_ACTIVE)
       /\ UNCHANGED <<session, quizAttempts>>]_vars

\* a submit was refused in a session that holds a ledger and an attempt
C4_Witness ==
  /\ last.op = "submit"
  /\ last.status = 400
  /\ last.body = Failure(MSG_NO_ACTIVE)
  /\ Len(quizAttempts) > 0
  /\ IsSome(session.usedQuestionIds)

\* C5 (as the specification states it): an answer request on an active quiz
\* whose position is not one of 0..n-1 -- negative, at or beyond n, or not an
\* integer at all -- is refused and leaves the stored answers and the cursor
\* as they were.
C5_InvalidIndexRefused ==
  [][(/\ AnswerStep
      /\ isActive(session)
      /\ ~validPosition(last'.args[1], Len(session.currentQuiz[1].questions))) =>
       (last'.status = 400 /\ UNCHANGED session)]_vars

\* C6: a successful answer stores the label under its position, replacing
\* what was stored there, leaves every other stored answer alone and sets
\* the cursor to the position; sending the same answer again changes nothing.
C6_LastWriteWins ==
  [][(AnswerStep /\ last'.status = 200) =>
       LET questionIndex == last'.args[1]
           answer == last'.args[2]
           old == session.currentQuiz[1]
           new == session'.currentQuiz[1]
       IN /\ isActive(session')
          /\ DOMAIN new.answers = DOMAIN old.answers \cup {questionIndex}
          /\ new.answers[questionIndex] = answer
          /\ \A p \in DOMAIN old.answers \ {questionIndex} : new.answers[p] = old.answers[p]
          /\ new.currentQuestionIndex = questionIndex
          /\ new.questions = old.questions
          /\ (Succeeded("answer") /\ last.args = last'.args) => session' = session]_vars

\* a position that already held an answer was answered again
C6_Witness ==
  /\ Succeeded("answer")
  /\ validPosition(last.args[1], Len(session.currentQuiz[1].questions))
  /\ last.before.answered = 1
  /\ DOMAIN session.currentQuiz[1].answers = {last.args[1]}
  /\ session.currentQuiz[1].answers[last.args[1]] = "B"

\* C7: a start whose first provider fetch delivers questions succeeds whether
\* or not a quiz was active, and a successful start leaves exactly the newly
\* selected questions as the active quiz, with no stored answer, the cursor
\* at 0 and the start time of this request.
C7_StartReplacesQuiz ==
  [][StartStep =>
       /\ last'.sel.fetches[1] = "" => last'.status = 200
       /\ last'.status = 200 =>
            /\ isActive(session')
            /\ LET quiz == session'.currentQuiz[1]
                   selected == last'.sel.result
               IN /\ quiz.answers = NoAnswers
                  /\ quiz.currentQuestionIndex = IntPos(0)
                  /\ quiz.startTime = now'
                  /\ Len(quiz.questions) = Len(selected)
                  /\ \A i \in DOMAIN selected :
                       /\ quiz.questions[i] = storedQuestion(selected[i])
                       /\ quiz.questionIds[i] = selected[i]._questionId]_vars

\* a start succeeded over an active quiz that held answers, after the clock
\* had advanced
C7_Witness ==
  /\ Succeeded("start")
  /\ last.before.active
  /\ last.before.answered > 0
  /\ isActive(session)
  /\ session.currentQuiz[1].startTime > 0
  /\ Len(session.currentQuiz[1].questions) > 0

providerUnavailable(message) == message \in {MSG_TIMEOUT, MSG_NETWORK}

relabelled(questions, label, id) ==
  [i \in DOMAIN questions |-> [questions[i] EXCEPT !.answer = label, !._questionId = id]]

relabelledQuiz(quiz, label, id) ==
  [quiz EXCEPT !.questions = [i \in DOMAIN quiz.questions |->
                                [quiz.questions[i] EXCEPT !.answer = label]],
               !.questionIds = [i \in DOMAIN quiz.questionIds |-> id]]

OtherLabels == Range(Labels) \cup {Undefined}

OtherIds == {<<>>, <<"z", "?">>}

\* C9: the response of a successful start and the acknowledgement of an
\* answer are the same for quizzes that differ only in their correct labels
\* and question identifiers; a sent question consists of its number, its
\* prompt and its four options.
C9_NoAnswerRevealed ==
  /\ Succeeded("start") =>
       /\ DOMAIN last.body = {"success", "questions", "totalQuestions", "requestedAmount"}
       /\ \A i \in DOMAIN last.body.questions :
            /\ DOMAIN last.body.questions[i] = {"questionNumber", "question", "options"}
            /\ DOMAIN last.body.questions[i].options = {"A", "B", "C", "D"}
       /\ \A label \in OtherLabels, id \in OtherIds :
            last.body = startBody(relabelled(last.sel.result, label, id),
                                  validAmountOf(last.args[1]))
  /\ Succeeded("answer") =>
       /\ DOMAIN last.body = {"success", "message", "currentQuestionIndex", "totalQuestions"}
       /\ \A label \in OtherLabels, id \in OtherIds :
            LET quiz == relabelledQuiz(session.currentQuiz[1], label, id)
            IN last.body = answerBody(quiz, Len(quiz.questions))

\* questions with different correct labels were sent and an answer was
\* acknowledged
C9_Witness ==
  /\ Succeeded("answer")
  /\ \E i, j \in DOMAIN session.currentQuiz[1].questions :
       session.currentQuiz[1].questions[i].answer # session.currentQuiz[1].questions[j].answer

\* C10: a successful selection contains a question whose identifier is in
\* the seen list only on the fallback path, where every fetched question had
\* already been seen.
C10_SeenOnlyOnFallback ==
  (last.op = "start" /\ last.sel.ok) =>
     LET seen == Range(last.sel.usedQuestionIds)
     IN (\E i \in DOMAIN last.sel.result : last.sel.result[i]._questionId \in seen)
          => /\ last.sel.path = "fallback"
             /\ \A i \in DOMAIN last.sel.fetchedIds : last.sel.fetchedIds[i] \in seen

\* a batch with seen and unseen questions was fetched and only unseen ones
\* were selected
C10_Witness ==
  /\ last.op = "start"
  /\ last.sel.ok
  /\ Len(last.sel.result) > 0
  /\ \E i \in DOMAIN last.sel.fetchedIds :
       last.sel.fetchedIds[i] \in Range(last.sel.usedQuestionIds)
  /\ \A i \in DOMAIN last.sel.result :
       last.sel.result[i]._questionId \notin Range(last.sel.usedQuestionIds)

\* C11 (as the specification states it, here for results of pairwise
\* different questions): a successful selection never contains two questions
\* with the same identifier.
C11_NoDuplicateIds ==
  (last.op = "start" /\ last.sel.ok
   /\ \A i, j \in DOMAIN last.sel.result :
        i # j => last.sel.result[i].question # last.sel.result[j].question)
    => \A i, j \in DOMAIN last.sel.result :
         i # j => last.sel.result[i]._questionId # last.sel.result[j]._questionId

(***************************************************************************)
(* SpecLedger: one start and what follows it, in sessions whose ledger is  *)
(* nearly full.                                                            *)
(***************************************************************************)
Digits == <<"0", "1", "2", "3", "4", "5", "6", "7", "8", "9">>

\* the identifier of the k-th question of earlier quizzes
EarlierId(k) ==
  <<"#", Digits[((k \div 100) % 10) + 1], Digits[((k \div 10) % 10) + 1], Digits[(k % 10) + 1]>>

FullLedgers == {[i \in 1..n |-> EarlierId(i)] : n \in (LEDGER_HIGH - MaxRoom)..LEDGER_HIGH}

InitLedger ==
  /\ \E ledger \in FullLedgers :
       session = [NewSession EXCEPT !.usedQuestionIds = Some(ledger)]
  /\ quizAttempts = <<>>
  /\ others = NoOthers
  /\ auth = SignedIn(CallerName)
  /\ fetch = NoRequest
  /\ inflight = NoneInFlight
  /\ now = 0
  /\ budget = [starts |-> 0, answers |-> 0, ticks |-> 0]
  /\ last = LoggedIn

LedgerStart ==
  /\ budget.starts = 0
  /\ budget' = [budget EXCEPT !.starts = @ + 1]
  /\ StartFrom(SelectAmountParams, "category")

NextLedger == LedgerStart \/ QuizAnswer \/ QuizSubmit \/ QuizResults \/ QuizReset

SpecLedger == InitLedger /\ [][NextLedger]_vars

ledgerOf(sess) == IF IsSome(sess.usedQuestionIds) THEN sess.usedQuestionIds[1] ELSE <<>>

\* C12: the ledger never holds more than 100 identifiers; a successful start
\* appends the identifiers of its quiz and, if that makes more than 100,
\* keeps exactly the last 50 of them in their order; a failed start, answer,
\* submit and reading the result leave the identifiers alone, reset removes
\* them.
C12_LedgerBounded ==
  /\ [](Len(ledgerOf(session)) <= LEDGER_HIGH)
  /\ [][/\ (StartStep /\ last'.status = 200) =>
             LET all == ledgerOf(session) \o
                          [i \in DOMAIN last'.sel.result |-> last'.sel.result[i]._questionId]
             IN ledgerOf(session') =
                  IF Len(all) > LEDGER_HIGH
                  THEN [i \in 1..LEDGER_KEEP |-> all[Len(all) - LEDGER_KEEP + i]]
                  ELSE all
        /\ (last'.op = "reset" /\ last' # last) => ledgerOf(session') = <<>>
        /\ ~(StartStep /\ last'.status = 200) /\ ~(last'.op = "reset") =>
             ledgerOf(session') = ledgerOf(session)
       ]_vars

\* a start added ten identifiers to a ledger of 95 and left the last 50
C12_Witness ==
  /\ Succeeded("start")
  /\ Len(last.sel.usedQuestionIds) = 95
  /\ Len(last.sel.result) = 10
  /\ Len(ledgerOf(session)) = LEDGER_KEEP
  /\ ledgerOf(session)[1] = EarlierId(56)
  /\ ledgerOf(session)[LEDGER_KEEP] = last.sel.result[10]._questionId

SaveStep == last'.op = "save" /\ (last' # last \/ quizAttempts' # quizAttempts)

\* C13 (as the specification states it): the caller's list of attempts
\* changes only in a successful submit, which appends exactly one attempt to
\* it; no other request (save among them) adds, alters or removes an attempt.
C13_OnlySubmitAppends ==
  [][quizAttempts' # quizAttempts
       => /\ SubmitStep
          /\ last'.status = 200
          /\ Len(quizAttempts') = Len(quizAttempts) + 1
          /\ SubSeq(quizAttempts', 1, Len(quizAttempts)) = quizAttempts]_vars

\* C14: when the lookup of the user or the write of the attempt throws
\* during a submit of an active quiz, the submit still answers 200 with the
\* scored result, keeps that result as the last result and leaves the session
\* without an active quiz; no attempt is stored.
C14_SubmitSurvivesDbError ==
  [][(SubmitStep /\ isActive(session) /\ last'.log = <<MSG_DB_ERROR>>)
       => LET quizResults == scoreQuiz(session.currentQuiz[1], now)
          IN /\ last'.status = 200
             /\ last'.body = [success |-> TRUE] @@ quizResults
             /\ session'.quizResults = Some(quizResults)
             /\ ~isActive(session')
             /\ quizAttempts' = quizAttempts]_vars

C14_Witness ==
  /\ last.op = "submit"
  /\ last.log = <<MSG_DB_ERROR>>
  /\ last.status = 200
  /\ ~isActive(session)
  /\ IsSome(session.quizResults)
  /\ session.quizResults[1].totalQuestions > 0
  /\ session.quizResults[1].correctCount > 0
  /\ quizAttempts = <<>>

\* C15 (as the specification states it, for a read while a quiz is active):
\* reading the last result fails with 404 when no submit has succeeded since
\* the most recent start.  A quiz is active only from a successful start to
\* the next submit, so a read answered while a quiz is active has no
\* successful submit between that start and itself.
C15_NoResultSinceStart ==
  (last.op = "results" /\ isActive(session)) => last.status = 404

ResetStep == last'.op = "reset" /\ (last' # last \/ session' # session)

\* C16: reset succeeds in every state of the session and leaves an empty
\* ledger, no active quiz and no last result, the stored attempts unchanged;
\* an answer or a submit that follows it is refused with 400 'no active quiz
\* session' and a read of the last result with 404.
C16_ResetClears ==
  /\ [][ResetStep
          => /\ last'.status = 200
             /\ session' = [usedQuestionIds |-> Some(<<>>), currentQuiz |-> None,
                            quizResults |-> None]
             /\ quizAttempts' = quizAttempts]_vars
  /\ [][(last.op = "reset" /\ (AnswerStep \/ SubmitStep))
          => /\ last'.status = 400
             /\ last'.body = Failure(MSG_NO_ACTIVE)
             /\ UNCHANGED <<session, quizAttempts>>]_vars
  /\ [][(last.op = "reset" /\ ResultsStep)
          => /\ last'.status = 404
             /\ UNCHANGED <<session, quizAttempts>>]_vars
  /\ [](last.op = "reset" => (ENABLED QuizAnswer /\ ENABLED QuizSubmit /\ ENABLED QuizResults))

\* a reset of a session that held an active quiz, the result of an earlier
\* quiz and a ledger, for a user with a stored attempt
C16_Witness ==
  /\ last.op = "reset"
  /\ last.status = 200
  /\ last.before.active
  /\ last.before.result
  /\ Len(quizAttempts) > 0
  /\ session = [usedQuestionIds |-> Some(<<>>), currentQuiz |-> None, quizResults |-> None]

LeaderboardStep == last'.op = "leaderboard" /\ last' # last

\* C17: the leaderboard lists no user without attempts: every entry is the
\* entry of a stored user with at least one attempt, and the rank reported
\* for a caller without attempts is null.
C17_NoAttemptsNotListed ==
  [][LeaderboardStep
       => LET found == last'.args[1]
              board == last'.body.leaderboard
              users == allUsersOf(found)
          IN /\ \A i \in DOMAIN board :
                  \E k \in DOMAIN users :
                    /\ users[k].username = board[i].username
                    /\ Len(users[k].quizAttempts) > 0
             /\ \A k \in DOMAIN users :
                  Len(users[k].quizAttempts) = 0
                    => \A i \in DOMAIN board : board[i].username # users[k].username
             /\ (found /\ Len(quizAttempts) = 0)
                  => last'.body.currentUser[1].rank = None]_vars

\* a leaderboard shorter than TOP_N read by a caller without attempts while
\* another user without attempts and users with attempts are stored
C17_Witness ==
  /\ last.op = "leaderboard"
  /\ last.args[1]
  /\ Len(quizAttempts) = 0
  /\ last.body.currentUser[1].rank = None
  /\ \E k \in DOMAIN others.docs : Len(others.docs[k].quizAttempts) = 0
  /\ Len(last.body.leaderboard) > 0
  /\ Len(last.body.leaderboard) < TOP_N

\* the highest score among the attempts of a user with attempts
highestScore(user) ==
  CHOOSE m \in {user.quizAttempts[i].score : i \in DOMAIN user.quizAttempts} :
    \A i \in DOMAIN user.quizAttempts : user.quizAttempts[i].score <= m

\* the positions in users of the users with attempts
qualifying(users) == {k \in DOMAIN users : Len(users[k].quizAttempts) > 0}

\* the highest score of every user with attempts, by position in users
\* (built once, as a whole)
highestScores(users) ==
  CHOOSE best \in {[k \in qualifying(users) |-> highestScore(users[k])]} : TRUE

\* the users that the ranking places before the user at k, given the highest
\* scores: those with a higher best score, and of those with the same best
\* score the ones that come earlier in the store
rankedBefore(best, k) ==
  {j \in DOMAIN best : best[j] > best[k] \/ (best[j] = best[k] /\ j < k)}

\* the place in the ranking of every user with attempts (built once)
placeOf(users) ==
  CHOOSE place \in {[k \in qualifying(users) |->
                       Cardinality(rankedBefore(highestScores(users), k)) + 1]} : TRUE

\* C18: every read of the leaderboard returns the first TOP_N places of the
\* ranking of the users that have an attempt at the time of the read, ordered
\* by best score from high to low and, among equal best scores, by the order
\* of the store; so an attempt stored by a submit shows in the next read.
C18_TopOfRanking ==
  [][LeaderboardStep
       => \A users \in {allUsersOf(last'.args[1])} :
            \A place \in {placeOf(users)} :
              LET board == last'.body.leaderboard
              IN /\ Len(board) = Min(TOP_N, Cardinality(qualifying(users)))
                 /\ \A k \in qualifying(users) :
                      place[k] <= TOP_N
                        => /\ board[place[k]].username = users[k].username
                           /\ board[place[k]].bestScore = Some(highestScore(users[k]))
                           /\ board[place[k]].totalAttempts = Len(users[k].quizAttempts)]_vars

\* a read after a stored submit: more than TOP_N users have attempts, the
\* caller is listed with the attempt of the submit counted, and two users
\* with the same best score are listed
C18_Witness ==
  /\ last.op = "leaderboard"
  /\ last.args[1]
  /\ IsSome(session.quizResults)
  /\ Len(quizAttempts) > 0
  /\ quizAttempts[Len(quizAttempts)] = attemptOf(session.quizResults[1])
  /\ Cardinality(qualifying(allUsersOf(TRUE))) > TOP_N
  /\ Len(last.body.leaderboard) = TOP_N
  /\ \E i \in DOMAIN last.body.leaderboard :
       /\ last.body.leaderboard[i].username = CallerName
       /\ last.body.leaderboard[i].totalAttempts = Len(quizAttempts)
  /\ \E i \in 1..(TOP_N - 1) :
       last.body.leaderboard[i].bestScore = last.body.leaderboard[i + 1].bestScore

\* C19: the rank reported for the caller is the caller's place, counted from
\* 1, in the ranking of all users with attempts, also when that place is
\* beyond TOP_N, and null when the caller has no attempts; a caller whose
\* document is not found gets no entry and no rank.
C19_RankInFullRanking ==
  [][LeaderboardStep
       => IF ~last'.args[1]
          THEN last'.body.currentUser = None
          ELSE \A users \in {allUsersOf(TRUE)} :
                 \A place \in {placeOf(users)} :
                   LET current == last'.body.currentUser[1]
                       board == last'.body.leaderboard
                       caller == others.me + 1
                   IN /\ current.username = CallerName
                      /\ users[caller].username = CallerName
                      /\ current.rank = IF Len(quizAttempts) = 0 THEN None
                                        ELSE Some(place[caller])
                      /\ (IsSome(current.rank) /\ current.rank[1] <= TOP_N)
                           => board[current.rank[1]].username = CallerName
                      /\ (IsSome(current.rank) /\ current.rank[1] > TOP_N)
                           => \A i \in DOMAIN board : board[i].username # CallerName]_vars

\* a caller with attempts whose place is beyond TOP_N
C19_Witness ==
  /\ last.op = "leaderboard"
  /\ last.args[1]
  /\ Len(quizAttempts) > 0
  /\ IsSome(last.body.currentUser[1].rank)
  /\ last.body.currentUser[1].rank[1] > TOP_N
  /\ Len(last.body.leaderboard) = TOP_N

\* two users with attempts, best scores 90 and 70: the leaderboard lists 90
\* before 70 and the caller, who holds the 70, has rank 2 although the
\* caller's document comes first in the store
C19_ScenarioF ==
  /\ last.op = "leaderboard"
  /\ last.args[1]
  /\ others.me = 0
  /\ Len(last.body.leaderboard) = 2
  /\ last.body.leaderboard[1].bestScore = Some(90)
  /\ last.body.leaderboard[2].bestScore = Some(70)
  /\ last.body.leaderboard[2].username = CallerName
  /\ last.body.currentUser[1].rank = Some(2)

ProfileStep == last'.op = "profile" /\ last' # last

C20_Fraction ==
  /\ last.op = "profile"
  /\ last.args[1]
  /\ IsSome(last.body.stats.averageScore)
  /\ last.body.stats.averageScore[1] % 100 # 0

(***************************************************************************)
(* SpecCount: one start request with every form of the amount parameter,   *)
(* in a new session, against a provider whose category holds MaxBatch      *)
(* questions; the quiz is then answered, submitted and read.               *)
(***************************************************************************)
CountStart ==
  /\ budget.starts = 0
  /\ budget' = [budget EXCEPT !.starts = @ + 1]
  /\ StartFrom(AmountParams, "category")

NextCount == CountStart \/ QuizAnswer \/ QuizSubmit \/ QuizResults

SpecCount == Init /\ [][NextCount]_vars

\* the count that the specification gives for a parameter: 10 for a missing
\* one, 1 for a non-numeric one and for a number below 1, 10 for a number
\* above 10, the number itself otherwise; nonNumeric: the kinds of parameter
\* that count as non-numeric
countFor(amountParam, nonNumeric) ==
  IF amountParam.kind \in nonNumeric THEN 1
  ELSE IF amountParam.kind \in {"missing", "empty", "undefined"} THEN 10
  ELSE IF amountParam.v < 1 THEN 1
  ELSE IF amountParam.v > 10 THEN 10
  ELSE amountParam.v

\* a start step never fails over its amount parameter: it fails only when
\* the first fetch of the provider failed, and the selection is asked for
\* the count that countFor gives
countRule(nonNumeric) ==
  StartStep
    => /\ last'.sel.count \in 1..10
       /\ last'.sel.count = countFor(last'.args[1], nonNumeric)
       /\ last'.status = 200 <=> last'.sel.ok
       /\ last'.status # 200 => last'.sel.fetches[1] # ""

C22_FailureKindKept ==
  (last.op = "start" /\ ~last.sel.ok /\ last.sel.path = "failed")
    => /\ last.status # 200
       /\ last.sel.message \in {MSG_NO_RESULTS, MSG_EMPTY}
            => (last.status = 400 /\ last.body = Failure(MSG_START_400))
       /\ last.sel.message \in {MSG_NETWORK, MSG_TIMEOUT}
            => (last.status = 503 /\ last.body = Failure(MSG_START_503))

(***************************************************************************)
(* SpecAuth: two browsers and two users.  Each browser has its own session *)
(* cookie, hence its own session document, and its own JWT cookie; either  *)
(* user can log in and out in either browser and take quizzes there.  The  *)
(* requests of the browser at hand act on session and auth; the other      *)
(* browser is parked in auth.parked until the browsers change places.      *)
(***************************************************************************)
OtherName == UserName(1)

Users == {CallerName, OtherName}

\* a browser that has not logged in
NewBrowser == [session |-> NewSession, token |-> None, userId |-> None, starter |-> None]

Opened == [LoggedIn EXCEPT !.op = "open"]

InitAuth ==
  /\ session = NewSession
  /\ quizAttempts = <<>>
  /\ others = [docs |-> <<[username |-> OtherName, quizAttempts |-> <<>>]>>, me |-> 0]
  /\ now = 0
  /\ budget = [starts |-> 0, answers |-> 0, ticks |-> 0]
  /\ last = Opened
  /\ auth = [token |-> None, userId |-> None, starter |-> None, parked |-> <<NewBrowser>>]
  /\ fetch = NoRequest
  /\ inflight = NoneInFlight

\* POST /api/login with the credentials of a user: the session gets the
\* user's id and the browser a JWT cookie; nothing else of the session
\* changes.  (A login with wrong credentials is answered 401 and changes
\* nothing; it is left out.)
Login ==
  /\ UNCHANGED <<session, quizAttempts, others, now, budget, fetch, inflight>>
  /\ \E user \in Users :
       /\ auth' = [auth EXCEPT !.token = Some(user), !.userId = Some(user)]
       /\ last' = Request("login", <<user>>, 200, [success |-> TRUE], <<>>)

\* POST /api/logout: the session is destroyed and both cookies are cleared
Logout ==
  /\ UNCHANGED <<quizAttempts, others, now, budget, fetch, inflight>>
  /\ session' = NewSession
  /\ auth' = [auth EXCEPT !.token = None, !.userId = None, !.starter = None]
  /\ last' = Request("logout", <<>>, 200,
                     [success |-> TRUE, message |-> "Logged out successfully"], <<>>)

\* the next request comes from the other browser
SwitchBrowser ==
  /\ UNCHANGED <<quizAttempts, others, now, budget, last, fetch, inflight>>
  /\ session' = auth.parked[1].session
  /\ auth' = [token |-> auth.parked[1].token,
              userId |-> auth.parked[1].userId,
              starter |-> auth.parked[1].starter,
              parked |-> <<[session |-> session, token |-> auth.token,
                            userId |-> auth.userId, starter |-> auth.starter]>>]

\* requireAuth without a valid JWT cookie and without a user in the session
Refused ==
  /\ ~IsSome(requestUser)
  /\ UNCHANGED <<session, quizAttempts, others, now, budget, auth, fetch, inflight>>
  /\ last' = Request("refused", <<>>, 401,
                     Failure("Authentication required. Please login."), <<>>)

AuthStart ==
  /\ IsSome(requestUser)
  /\ budget.starts < MaxStarts
  /\ budget' = [budget EXCEPT !.starts = @ + 1]
  /\ StartFrom(BrowserAmountParams, "browser")

AuthAnswer == IsSome(requestUser) /\ AnswerFrom(BoardAnswers) /\ UNCHANGED budget

AuthSubmit == IsSome(requestUser) /\ SubmitFrom(BrowserDbOutcomes) /\ UNCHANGED budget

NextAuth ==
  \/ Login
  \/ Logout
  \/ SwitchBrowser
  \/ Refused
  \/ AuthStart
  \/ AuthAnswer
  \/ AuthSubmit

SpecAuth == InitAuth /\ [][NextAuth]_vars

\* the user of the parked browser's requests
parkedUser ==
  IF IsSome(auth.parked[1].token) THEN auth.parked[1].token ELSE auth.parked[1].userId

\* C23 (as the specification states it): no user has two active quizzes:
\* of the sessions under which one user is authenticated at most one holds
\* an active quiz.
C23_OneActiveQuizPerUser ==
  ~(/\ isActive(session)
    /\ isActive(auth.parked[1].session)
    /\ IsSome(requestUser)
    /\ requestUser = parkedUser)

\* C24 (as the specification states it): a quiz is answered and scored only
\* under the identity that started it, and the attempt of a submit goes to
\* the history of that user and of nobody else.
C24_ScoredForStarter ==
  [][((AnswerStep \/ SubmitStep) /\ last'.status = 200)
       => /\ requestUser = auth.starter
          /\ \A user \in Users :
               Some(user) # auth.starter => attemptsOf(user)' = attemptsOf(user)]_vars

\* the identifiers of the questions of a selection's result
resultIds(sel) == [i \in DOMAIN sel.result |-> sel.result[i]._questionId]

\* the identifiers of the batch (after a supplemental fetch, if any) that
\* are not in the seen list, in the order of the batch
unseenIds(sel) ==
  LET unseen(id) == id \notin Range(sel.usedQuestionIds)
  IN SelectSeq(sel.fetchedIds, unseen)

\* a successful selection whose batch is smaller than the fetch size
batchShort(sel) == sel.ok /\ Len(sel.fetchedIds) < sel.fetchAmount

\* C25 (as the specification states it): a selection whose batch is smaller
\* than the fetch size returns all questions of the batch that are not in
\* the seen list, in the order of the batch, whatever their number.
C25_ShortBatchAllUnseen ==
  (last.op = "start" /\ batchShort(last.sel))
    => resultIds(last.sel) = unseenIds(last.sel)

\* C25 (amended): a selection whose batch is smaller than the fetch size and
\* holds fewer than the requested count of questions that are not in the
\* seen list returns all of those, in the order of the batch, and does not
\* fail.
C25_ShortBatchFewUnseen ==
  (last.op = "start" /\ batchShort(last.sel)
   /\ Len(unseenIds(last.sel)) < last.sel.count)
    => /\ last.status = 200
       /\ resultIds(last.sel) = unseenIds(last.sel)
       /\ \A i, j \in DOMAIN last.sel.result :
            i < j => last.sel.result[i]._index < last.sel.result[j]._index
       /\ \A i \in DOMAIN last.sel.result :
            last.sel.result[i]._questionId = last.sel.fetchedIds[last.sel.result[i]._index + 1]

\* a short batch after a supplemental fetch, part of it seen before, the
\* rest served
C25_Witness ==
  /\ last.op = "start"
  /\ batchShort(last.sel)
  /\ Len(last.sel.fetches) = 2
  /\ Len(last.sel.result) > 0
  /\ Len(last.sel.result) < Len(last.sel.fetchedIds)
  /\ Len(last.sel.result) < last.sel.count
  /\ last.status = 200

\* a successful selection whose batch is not smaller than the fetch size
batchFull(sel) == sel.ok /\ Len(sel.fetchedIds) >= sel.fetchAmount

\* every question of a selection's result is the question of the batch at
\* its index
fromBatch(sel) ==
  \A i \in DOMAIN sel.result :
    /\ sel.result[i]._index + 1 \in DOMAIN sel.fetchedIds
    /\ sel.result[i]._questionId = sel.fetchedIds[sel.result[i]._index + 1]

\* C26: a selection whose batch is not short and wholly in the seen list
\* returns the first min(requested count, batch size) questions of the
\* unfiltered batch; when at least one question is not in the seen list the
\* result holds only questions that are not in it, each once, and at most
\* the requested count of them.
C26_ExhaustionFallback ==
  (last.op = "start" /\ batchFull(last.sel))
    => \A sel \in {last.sel} : \A unseen \in {unseenIds(sel)} :
         /\ fromBatch(sel)
         /\ unseen = <<>> =>
              /\ Len(sel.result) = Min(sel.count, Len(sel.fetchedIds))
              /\ \A i \in DOMAIN sel.result : sel.result[i]._index = i - 1
         /\ unseen # <<>> =>
              /\ \A i \in DOMAIN sel.result :
                   sel.result[i]._questionId \notin Range(sel.usedQuestionIds)
              /\ \A i, j \in DOMAIN sel.result :
                   i # j => sel.result[i]._index # sel.result[j]._index
              /\ Len(sel.result) <= sel.count
              /\ Len(sel.result) = Min(sel.count, Len(unseen))

\* a full batch of questions that were all seen before is served again
C26_Witness ==
  /\ last.op = "start"
  /\ batchFull(last.sel)
  /\ last.sel.usedQuestionIds # <<>>
  /\ unseenIds(last.sel) = <<>>
  /\ Len(last.sel.result) = last.sel.count
  /\ last.status = 200

\* a full batch with fewer unseen questions than requested serves only those
C26_Partial ==
  /\ last.op = "start"
  /\ batchFull(last.sel)
  /\ unseenIds(last.sel) # <<>>
  /\ Len(unseenIds(last.sel)) < last.sel.count
  /\ Len(last.sel.result) = Len(unseenIds(last.sel))

\* the first n identifiers of a selection's batch are pairwise different
distinctIds(sel, n) ==
  \A i, j \in 1..n : i # j => sel.fetchedIds[i] # sel.fetchedIds[j]

\* C27: with an empty seen list and a provider that delivers exactly the
\* requested count of questions with pairwise different identifiers, the
\* selection fetches exactly the requested count once, makes no supplemental
\* fetch and returns every delivered question exactly once.
C27_ExactBatchServedWhole ==
  (/\ last.op = "start"
   /\ last.sel.ok
   /\ last.sel.usedQuestionIds = <<>>
   /\ last.sel.firstCount = last.sel.count
   /\ distinctIds(last.sel, last.sel.firstCount))
    => \A sel \in {last.sel} :
         /\ sel.amounts = <<sel.count>>
         /\ Len(sel.fetches) = 1
         /\ Len(sel.result) = sel.count
         /\ fromBatch(sel)
         /\ \A k \in DOMAIN sel.fetchedIds :
              Cardinality({i \in DOMAIN sel.result : sel.result[i]._index = k - 1}) = 1
         /\ \A k \in DOMAIN sel.fetchedIds :
              Cardinality({i \in DOMAIN sel.result :
                             sel.result[i]._questionId = sel.fetchedIds[k]}) = 1
         /\ last.status = 200
         /\ last.body.totalQuestions = sel.count

\* two questions requested of a new session, two different questions
\* delivered, and served in the order opposite to the provider's
C27_Witness ==
  /\ last.op = "start"
  /\ last.sel.ok
  /\ last.sel.usedQuestionIds = <<>>
  /\ last.sel.count = 2
  /\ last.sel.firstCount = 2
  /\ distinctIds(last.sel, 2)
  /\ Len(last.sel.result) = 2
  /\ last.sel.result[1]._index = 1

\* C28: a selection makes one fetch or two; it makes the second only when
\* the first batch is smaller than the fetch size and smaller than the
\* requested count; and every start is answered.
C28_AtMostTwoFetches ==
  last.op = "start"
    => \A sel \in {last.sel} :
         /\ Len(sel.fetches) \in {1, 2}
         /\ Len(sel.amounts) = Len(sel.fetches)
         /\ Len(sel.fetches) = 2 =>
              /\ sel.ok
              /\ sel.firstCount < sel.fetchAmount
              /\ sel.firstCount < sel.count
              /\ sel.amounts[2] > 0
         /\ last.status \in {200, 400, 500, 503}

\* a supplemental fetch was made and the start succeeded
C28_Witness ==
  /\ last.op = "start"
  /\ Len(last.sel.fetches) = 2
  /\ last.sel.firstCount < last.sel.count
  /\ Len(last.sel.fetchedIds) > last.sel.firstCount
  /\ last.status = 200

\* a first batch smaller than the fetch size but not smaller than the
\* requested count is not supplemented
C28_ShortButEnough ==
  /\ last.op = "start"
  /\ last.sel.ok
  /\ last.sel.firstCount < last.sel.fetchAmount
  /\ last.sel.firstCount = last.sel.count
  /\ Len(last.sel.fetches) = 1

(***************************************************************************)
(* SpecFetch: one call of fetchQuestionsFromAPI, event by event.  The      *)
(* promise executor has sent the request and armed the timer; the          *)
(* provider's reply arrives as a response, data chunks and an end, or the  *)
(* request fails, or nothing happens.  The clock advances in steps of      *)
(* TickMs and the timer fires once TIMEOUT_MS have passed.  resolve and    *)
(* reject settle the promise only if it is still pending.                  *)
(***************************************************************************)
\* resolve/reject that replace the outcome of a settled promise
settleLastWins(promise, outcome) == Some(outcome)

\* resolve(...) or reject(...) of the promise
settle(promise, outcome) == IF IsSome(promise) THEN promise ELSE Some(outcome)

clearTimeout(timer) == IF timer = "armed" THEN "cleared" ELSE timer

\* JSON.parse(data) and the checks that follow it: a body that ended before
\* its last chunk is no JSON text
parsedOutcome(reply, received, chunks) ==
  IF received < chunks THEN Rejected(MSG_PARSE) ELSE fetchQuestionsFromAPI(reply)

\* a call of resolve or reject that found the promise settled
ignoredBy(f) == IF IsSome(f.promise) THEN f.ignored + 1 ELSE f.ignored

\* res.on('end')
endHandler(f) ==
  [f EXCEPT !.timer = clearTimeout(@),
            !.promise = settle(@, parsedOutcome(f.reply, f.received, f.chunks)),
            !.ignored = ignoredBy(f)]

\* request.on('error')
errorHandler(f) ==
  [f EXCEPT !.timer = clearTimeout(@),
            !.promise = settle(@, Rejected(MSG_NETWORK)),
            !.ignored = ignoredBy(f)]

\* the callback of setTimeout; the runtime may still deliver the events it
\* had in hand for the destroyed request: a 'socket hang up' error when no
\* response had begun, an 'end' when one had
timeoutHandler(f) ==
  [f EXCEPT !.timer = "fired",
            !.request = "destroyed",
            !.queued = IF f.request = "sent" THEN {"error"}
                       ELSE IF f.request = "response" THEN {"end"} ELSE {},
            !.promise = settle(@, Rejected(MSG_TIMEOUT)),
            !.ignored = ignoredBy(f)]

\* the bodies a provider can send: JSON texts and text that is no JSON
Bodies == {r \in ProviderReplies(DEFAULT_AMOUNT) : r.kind \in {"json", "garbage"}}

Sent(reply, chunks) ==
  [NoRequest EXCEPT !.request = "sent", !.reply = reply, !.chunks = chunks,
                    !.timer = "armed"]

InitFetch ==
  /\ session = NewSession
  /\ quizAttempts = <<>>
  /\ others = NoOthers
  /\ auth = SignedIn(CallerName)
  /\ now = 0
  /\ budget = [starts |-> 0, answers |-> 0, ticks |-> 0]
  /\ last = LoggedIn
  /\ \E reply \in Bodies, chunks \in 1..MaxChunks : fetch = Sent(reply, chunks)
  /\ inflight = NoneInFlight

FetchStep(f) ==
  /\ fetch' = f
  /\ UNCHANGED <<session, quizAttempts, others, now, last, budget, auth, inflight>>

\* time passes; the timer is due at TIMEOUT_MS
FetchTick ==
  /\ fetch.elapsed < TIMEOUT_MS
  /\ FetchStep([fetch EXCEPT !.elapsed = @ + TickMs])

\* the callback of https.get: the response has begun
OnResponse ==
  /\ fetch.request = "sent"
  /\ FetchStep([fetch EXCEPT !.request = "response"])

\* res.on('data'): data += chunk
OnData ==
  /\ fetch.request = "response"
  /\ fetch.received < fetch.chunks
  /\ FetchStep([fetch EXCEPT !.received = @ + 1])

\* the response ends, after its last chunk or (a body delimited by the close
\* of the connection) before it
OnEnd ==
  /\ fetch.request = "response"
  /\ FetchStep(endHandler([fetch EXCEPT !.request = "ended"]))

\* the connection is lost during the response: 'aborted' and 'close', for
\* which no handler is registered
OnAborted ==
  /\ fetch.request = "response"
  /\ FetchStep([fetch EXCEPT !.request = "aborted"])

\* the request fails before a response
OnError ==
  /\ fetch.request = "sent"
  /\ FetchStep(errorHandler([fetch EXCEPT !.request = "failed"]))

OnTimeout ==
  /\ fetch.timer = "armed"
  /\ fetch.elapsed >= TIMEOUT_MS
  /\ FetchStep(timeoutHandler(fetch))

\* events delivered after request.destroy()
LateError ==
  /\ "error" \in fetch.queued
  /\ FetchStep(errorHandler([fetch EXCEPT !.queued = @ \ {"error"}]))

LateEnd ==
  /\ "end" \in fetch.queued
  /\ FetchStep(endHandler([fetch EXCEPT !.queued = @ \ {"end"}]))

NextFetch ==
  \/ FetchTick
  \/ OnResponse
  \/ OnData
  \/ OnEnd
  \/ OnAborted
  \/ OnError
  \/ OnTimeout
  \/ LateError
  \/ LateEnd

\* the event loop runs: the clock advances and a due timer fires; the
\* provider owes nothing
SpecFetch == InitFetch /\ [][NextFetch]_vars /\ WF_vars(FetchTick) /\ WF_vars(OnTimeout)

\* C29: every fetch is eventually settled with one outcome that no later
\* event changes; the timer that fires rejects with the timeout message and
\* destroys the request, and it is pending for as long as the promise is;
\* the questions of a resolved fetch are those of a body received whole.
C29_OneOutcome ==
  /\ <>IsSome(fetch.promise)
  /\ [][IsSome(fetch.promise) => fetch'.promise = fetch.promise]_vars
  /\ [](IsSome(fetch.promise) <=> fetch.timer # "armed")
  /\ [][fetch'.timer = "fired" /\ fetch.timer # "fired"
          => /\ fetch.elapsed >= TIMEOUT_MS
             /\ fetch'.promise = Some(Rejected(MSG_TIMEOUT))
             /\ fetch'.request = "destroyed"]_vars
  /\ [](fetch.promise = Some(Rejected(MSG_TIMEOUT))
          => fetch.request = "destroyed" /\ fetch.timer = "fired")
  /\ [](IsSome(fetch.promise) /\ fetch.promise[1].ok
          => /\ fetch.received = fetch.chunks
             /\ fetch.request = "ended"
             /\ fetch.promise[1].results = fetch.reply.results
             /\ Len(fetch.promise[1].results) > 0)

\* a whole body of questions whose end came after the timer fired: the
\* outcome stays the timeout
C29_Witness ==
  /\ fetch.promise = Some(Rejected(MSG_TIMEOUT))
  /\ fetch.request = "destroyed"
  /\ fetch.ignored > 0
  /\ fetch.queued = {}
  /\ fetch.received = fetch.chunks
  /\ fetchQuestionsFromAPI(fetch.reply).ok

\* the identifiers of the active quiz of a session
quizIdsOf(sess) == IF isActive(sess) THEN Range(sess.currentQuiz[1].questionIds) ELSE {}

\* C30: a successful start leaves the identifiers of all questions of its
\* quiz in the ledger, and unless it took the exhaustion fallback it serves
\* no question whose identifier was in the ledger when it began; the
\* identifiers of the active quiz stay in the ledger, and a request other
\* than reset keeps the (up to) 50 most recently served identifiers in it.
C30_NoRepeatWhileInLedger ==
  /\ [](quizIdsOf(session) \subseteq Range(ledgerOf(session)))
  /\ [][/\ (StartStep /\ last'.status = 200) =>
             /\ Range(resultIds(last'.sel)) = quizIdsOf(session')
             /\ quizIdsOf(session') \subseteq Range(ledgerOf(session'))
             /\ last'.sel.usedQuestionIds = ledgerOf(session)
             /\ last'.sel.path # "fallback" =>
                  quizIdsOf(session') \cap Range(ledgerOf(session)) = {}
        /\ last'.op # "reset" =>
             \A served \in {ledgerOf(session) \o
                              (IF StartStep /\ last'.status = 200
                               THEN resultIds(last'.sel) ELSE <<>>)} :
               /\ Range(TakeLast(served, Min(LEDGER_KEEP, Len(served))))
                    \subseteq Range(ledgerOf(session'))
               /\ Range(ledgerOf(session')) \subseteq Range(served)
       ]_vars

\* the second start of a session found identifiers of the first quiz in its
\* batch and serves a quiz without them
C30_Witness ==
  /\ Succeeded("start")
  /\ budget.starts = 2
  /\ last.sel.usedQuestionIds # <<>>
  /\ last.sel.path # "fallback"
  /\ \E i \in DOMAIN last.sel.fetchedIds :
       last.sel.fetchedIds[i] \in Range(last.sel.usedQuestionIds)
  /\ quizIdsOf(session) # {}
  /\ quizIdsOf(session) \cap Range(last.sel.usedQuestionIds) = {}
  /\ quizIdsOf(session) \subseteq Range(ledgerOf(session))

\* the second start of a session took the fallback and serves seen questions
C30_Fallback ==
  /\ Succeeded("start")
  /\ budget.starts = 2
  /\ last.sel.path = "fallback"
  /\ quizIdsOf(session) \subseteq Range(last.sel.usedQuestionIds)
  /\ quizIdsOf(session) # {}

\* the four option slots of a question, A to D
slotsOf(q) == <<q.A, q.B, q.C, q.D>>

\* the decoded answers of a raw question, the correct one first
decodedAnswers(raw) ==
  <<decodeHtmlEntities(raw.correct_answer)>>
    \o [i \in DOMAIN raw.incorrect_answers |-> decodeHtmlEntities(raw.incorrect_answers[i])]

\* slot number of a label
slotOf(label) == CHOOSE k \in DOMAIN Labels : Labels[k] = label

\* C31: the slots A to D of every question created from a raw question with
\* one correct and three incorrect answers are a permutation of its four
\* decoded answers and the correct label names a slot holding the decoded
\* correct answer; the options stored at start are the ones shown; the
\* questions of an active quiz never change; submit reports the stored
\* options and label of every question and scores against that label.
C31_OptionsFixed ==
  /\ []((last.op = "start" /\ last.sel.ok) =>
          \A i \in DOMAIN last.sel.result :
            \A q \in {last.sel.result[i]} :
              \A answers \in {decodedAnswers(last.sel.apiQuestions[q._index + 1])} :
                /\ Len(answers) = 4
                /\ \E p \in Permutations(1..4) : \A k \in 1..4 : slotsOf(q)[k] = answers[p[k]]
                /\ q.answer \in Range(Labels)
                /\ slotsOf(q)[slotOf(q.answer)] = answers[1])
  /\ [][/\ (StartStep /\ last'.status = 200) =>
             \A quiz \in {session'.currentQuiz[1]} :
               /\ Len(quiz.questions) = Len(last'.sel.result)
               /\ Len(last'.body.questions) = Len(quiz.questions)
               /\ \A i \in DOMAIN quiz.questions :
                    /\ slotsOf(quiz.questions[i]) = slotsOf(last'.sel.result[i])
                    /\ quiz.questions[i].answer = last'.sel.result[i].answer
                    /\ slotsOf(last'.body.questions[i].options) = slotsOf(quiz.questions[i])
        /\ (isActive(session) /\ isActive(session') /\ ~StartStep) =>
             session'.currentQuiz[1].questions = session.currentQuiz[1].questions
        /\ (SubmitStep /\ last'.status = 200) =>
             \A quiz \in {session.currentQuiz[1]} :
               /\ Len(last'.body.results) = Len(quiz.questions)
               /\ \A i \in DOMAIN quiz.questions :
                    \A r \in {last'.body.results[i]} :
                      /\ slotsOf(r.options) = slotsOf(quiz.questions[i])
                      /\ r.correctAnswer = quiz.questions[i].answer
                      /\ r.isCorrect <=> answerAt(quiz.answers, i - 1) = quiz.questions[i].answer
       ]_vars

\* a quiz whose first question has its correct answer, decoded from an
\* entity, in a slot other than A was answered and submitted, and the result
\* reports the options in the stored order
C31_Witness ==
  /\ Succeeded("submit")
  /\ Len(last.body.results) >= 2
  /\ last.body.results[1].correctAnswer # "A"
  /\ last.body.results[1].isCorrect
  /\ \E i \in DOMAIN last.body.results :
       \E k \in 1..4 : slotsOf(last.body.results[i].options)[k] = <<"&", "r">>

C33_QuizNotEmpty ==
  Succeeded("start") => /\ isActive(session)
                        /\ Len(session.currentQuiz[1].questions) >= 1

\* C34: a start that fails leaves the identifiers of the ledger, the last
\* result and the persisted attempts of every user unchanged.
C34_FailedStartFrame ==
  [][(StartStep /\ last'.status # 200)
       => /\ ~last'.sel.ok
          /\ ledgerOf(session') = ledgerOf(session)
          /\ session'.quizResults = session.quizResults
          /\ quizAttempts' = quizAttempts
          /\ others' = others]_vars

\* a start failed in a session that holds a ledger, a last result and a
\* persisted attempt
C34_Witness ==
  /\ last.op = "start"
  /\ last.status = 503
  /\ ledgerOf(session) # <<>>
  /\ IsSome(session.quizResults)
  /\ quizAttempts # <<>>
  /\ ~isActive(session)

\* C35: a successful answer stores the given answer at the given position
\* and moves the cursor there; the questions and the start time of the quiz,
\* the answers at all other positions, the ledger, the last result and the
\* persisted attempts are unchanged, and the response carries no score.
C35_AnswerFrame ==
  [][(AnswerStep /\ last'.status = 200)
       => \A old \in {session.currentQuiz[1]} : \A new \in {session'.currentQuiz[1]} :
            \A pos \in {last'.args[1]} :
              /\ new.questions = old.questions
              /\ new.startTime = old.startTime
              /\ new.questionIds = old.questionIds
              /\ DOMAIN new.answers = DOMAIN old.answers \cup {pos}
              /\ new.answers[pos] = last'.args[2]
              /\ \A p \in DOMAIN old.answers : p # pos => new.answers[p] = old.answers[p]
              /\ new.currentQuestionIndex = pos
              /\ session'.usedQuestionIds = session.usedQuestionIds
              /\ session'.quizResults = session.quizResults
              /\ quizAttempts' = quizAttempts
              /\ others' = others
              /\ DOMAIN last'.body = {"success", "message", "currentQuestionIndex", "totalQuestions"}
    ]_vars

\* the second position was answered in a quiz whose first position holds
\* another answer
C35_Witness ==
  /\ Succeeded("answer")
  /\ last.args[1] = IntPos(1)
  /\ isActive(session)
  /\ IntPos(0) \in DOMAIN session.currentQuiz[1].answers
  /\ session.currentQuiz[1].answers[IntPos(0)] # last.args[2]
  /\ ledgerOf(session) # <<>>

\* C39 (as the specification states it): a submit that succeeds without
\* storing an attempt for the caller writes the failure to the log.
C39_UnpersistedIsLogged ==
  [][(SubmitStep /\ last'.status = 200
      /\ attemptsOf(requestUser[1])' = attemptsOf(requestUser[1]))
       => last'.log # <<>>]_vars

(***************************************************************************)
(* SpecRace: answer and submit requests of one session that overlap in     *)
(* time.  The session middleware gives every request its own copy of the   *)
(* session document, read from the store when the request arrives; the     *)
(* handler changes that copy and req.session.save() writes the whole copy  *)
(* back.  The handler's statements up to its first await run without       *)
(* interruption; between its awaits other requests run.  session is the    *)
(* document in the store.                                                  *)
(***************************************************************************)
Idle == [op |-> "none", args |-> <<>>, pc |-> "idle", local |-> NewSession,
         quizResults |-> None]

\* the checks of the answer handler on the request's copy of the session
answerRefusal(sess, questionIndex, answer) ==
  IF ~isActive(sess) THEN MSG_NO_ACTIVE
  ELSE IF questionIndex = UndefinedPos \/ answer = Undefined THEN MSG_PROVIDE
  ELSE IF invalidIndex(questionIndex, Len(sess.currentQuiz[1].questions))
  THEN MSG_INVALID_INDEX
  ELSE ""

InitRace ==
  /\ session = StartedSession
  /\ quizAttempts = <<>>
  /\ others = NoOthers
  /\ auth = [SignedIn(CallerName) EXCEPT !.starter = Some(CallerName)]
  /\ fetch = NoRequest
  /\ inflight = [NoneInFlight EXCEPT !.reqs = [id \in 1..MaxInFlight |-> Idle]]
  /\ now = 0
  /\ budget = [starts |-> 1, answers |-> 0, ticks |-> 0]
  /\ last = LoggedIn

RaceAnswers == {<<IntPos(0), "A">>, <<IntPos(1), "B">>, <<IntPos(0), "C">>}

\* POST /api/quiz/answer arrives: the session is read and the handler runs
\* up to req.session.save(); a refused request is answered at once
AnswerArrives(id) ==
  /\ inflight.reqs[id].pc = "idle"
  /\ budget.answers < MaxAnswers
  /\ budget' = [budget EXCEPT !.answers = @ + 1]
  /\ UNCHANGED <<session, quizAttempts, others, now, auth, fetch>>
  /\ \E r \in RaceAnswers :
       IF answerRefusal(session, r[1], r[2]) # ""
       THEN /\ last' = Request("answer", r, 400, Failure(answerRefusal(session, r[1], r[2])),
                               <<>>)
            /\ UNCHANGED inflight
       ELSE /\ inflight' =
                 [inflight EXCEPT !.reqs[id] =
                    [Idle EXCEPT !.op = "answer", !.args = r, !.pc = "save",
                                 !.local = [session EXCEPT !.currentQuiz =
                                              Some(answeredQuiz(session.currentQuiz[1],
                                                                r[1], r[2]))]]]
            /\ UNCHANGED last

\* the save of an answer request completes and the answer is acknowledged
AnswerSaves(id) ==
  /\ inflight.reqs[id].op = "answer"
  /\ inflight.reqs[id].pc = "save"
  /\ UNCHANGED <<quizAttempts, others, now, budget, auth, fetch>>
  /\ \A req \in {inflight.reqs[id]} :
       /\ session' = req.local
       /\ last' = Request("answer", req.args, 200,
                          answerBody(req.local.currentQuiz[1],
                                     Len(req.local.currentQuiz[1].questions)), <<>>)
       /\ inflight' = [inflight EXCEPT
                         !.reqs[id] = Idle,
                         !.acked = storeAnswer(@, req.args[1], req.args[2])]

\* POST /api/quiz/submit arrives: the session is read and the handler scores
\* the quiz of its copy up to req.session.save()
SubmitArrives(id) ==
  /\ inflight.reqs[id].pc = "idle"
  /\ UNCHANGED <<session, quizAttempts, others, now, budget, auth, fetch>>
  /\ IF ~isActive(session)
     THEN /\ last' = Request("submit", <<>>, 400, Failure(MSG_NO_ACTIVE),
                             <<"Quiz submission failed - no currentQuiz in session:">>)
          /\ UNCHANGED inflight
     ELSE /\ \A quizResults \in {scoreQuiz(session.currentQuiz[1], now)} :
               inflight' = [inflight EXCEPT !.reqs[id] =
                              [Idle EXCEPT !.op = "submit", !.pc = "save",
                                           !.local = submittedSession(session, quizResults),
                                           !.quizResults = Some(quizResults)]]
          /\ UNCHANGED last

\* the save of a submit request completes
SubmitSaves(id) ==
  /\ inflight.reqs[id].op = "submit"
  /\ inflight.reqs[id].pc = "save"
  /\ UNCHANGED <<quizAttempts, others, now, budget, auth, fetch, last>>
  /\ session' = inflight.reqs[id].local
  /\ inflight' = [inflight EXCEPT !.reqs[id].pc = "persist"]

\* the attempt is pushed to the user's document and the result is sent
SubmitPersists(id) ==
  /\ inflight.reqs[id].op = "submit"
  /\ inflight.reqs[id].pc = "persist"
  /\ Len(attemptsOf(requestUser[1])) < MaxAttempts
  /\ UNCHANGED <<session, now, budget, auth, fetch>>
  /\ \A quizResults \in {inflight.reqs[id].quizResults[1]} :
       /\ storeAttempt(requestUser[1], attemptOf(quizResults))
       /\ last' = submitResponse("saved", quizResults)
       /\ inflight' = [inflight EXCEPT !.reqs[id] = Idle,
                                       !.submitted = Some(quizResults)]

NextRace ==
  \E id \in 1..MaxInFlight :
    \/ AnswerArrives(id)
    \/ AnswerSaves(id)
    \/ SubmitArrives(id)
    \/ SubmitSaves(id)
    \/ SubmitPersists(id)

SpecRace == InitRace /\ [][NextRace]_vars

\* C36 (as the specification states it): the one quiz that was started is
\* scored at most once and at most one attempt is stored for it, also when
\* two submit requests overlap.
C36_OneAttemptPerQuiz ==
  /\ Len(quizAttempts) <= 1
  /\ Cardinality({id \in DOMAIN inflight.reqs : inflight.reqs[id].op = "submit"})
       + Len(quizAttempts) <= 1

\* C37 (as the specification states it): a submit that arrives scores, at
\* every position for which an answer was acknowledged, the answer
\* acknowledged last for that position.
C37_AckedAnswerScored ==
  [][\A id \in DOMAIN inflight.reqs :
       (inflight.reqs[id].pc = "idle" /\ inflight'.reqs[id].op = "submit")
         => \A pos \in DOMAIN inflight.acked :
              inflight'.reqs[id].quizResults[1].results[pos.v + 1].userAnswer
                = inflight.acked[pos]]_vars

\* C38 (as the specification states it): once a submit was answered with its
\* result, the session in the store has no active quiz and holds a last
\* result.
C38_SubmittedStaysSubmitted ==
  IsSome(inflight.submitted) => /\ ~isActive(session)
                                /\ IsSome(session.quizResults)

=============================================================================
